---- MODULE Spec2Model ----
(***************************************************************************)
(* Model of examples/ai_inference/src/main.rs: the TwoLayerNN circuit      *)
(* (generate_constraints), the reference computation of the public         *)
(* statement (compute_model_var) and the part of main that connects them.  *)
(*                                                                         *)
(* Field elements are canonical representatives 0..Modulus-1.  The code    *)
(* works over bls12_381::Fr (255 bits); the model works over a prime field *)
(* of 25 bits so that the 22-bit rescale of layer 1 keeps its real width   *)
(* and every value fits TLC's integers.                                    *)
(*                                                                         *)
(* The Poseidon sponge is a library primitive.  It is modelled             *)
(* symbolically: a sponge records its parameters and the sequence it       *)
(* absorbed, and a squeezed element is the term <<parameters, absorbed     *)
(* sequence, position>>, i.e. an injective function of what went in.       *)
(* A plain field element, where it is absorbed, is the term <<v>>.         *)
(***************************************************************************)
EXTENDS Integers, Sequences, FiniteSets, TLC

(***************************************************************************)
(* Bounds of the model: the largest dimensions of the network.             *)
(***************************************************************************)
MaxN == 2
MaxH == 3
MaxM == 3

(***************************************************************************)
(* The prime field.                                                        *)
(***************************************************************************)
Modulus == 33554393

RECURSIVE BitLength(_)
BitLength(v) == IF v = 0 THEN 0 ELSE 1 + BitLength(v \div 2)

MODULUS_BIT_SIZE == BitLength(Modulus)

MODULUS_MINUS_ONE_DIV_TWO == (Modulus - 1) \div 2

\* Fr::from(i64): canonical reduction, a negative integer v becomes Modulus - |v|.
from_i64(v) == v % Modulus

add(a, b) == (a + b) % Modulus

sub(a, b) == (a - b + Modulus) % Modulus

double(a) == add(a, a)

\* Field multiplication, five bits of b at a time so that no intermediate
\* product leaves 32 bits.
RECURSIVE mul(_, _)
mul(a, b) ==
    IF b = 0 THEN 0
    ELSE add((a * (b % 32)) % Modulus, mul((a * 32) % Modulus, b \div 32))

(***************************************************************************)
(* Bit gadgets.                                                            *)
(***************************************************************************)
\* FpVar::to_bits_le: the MODULUS_BIT_SIZE bits of the canonical
\* representative, least significant first.
to_bits_le(v) == [i \in 1..MODULUS_BIT_SIZE |-> (v \div (2 ^ (i - 1))) % 2 = 1]

\* Boolean::le_bits_to_fp_var: the field element whose little-endian bits are
\* given.
RECURSIVE le_bits_to_fp_var(_)
le_bits_to_fp_var(bits) ==
    IF bits = <<>> THEN 0
    ELSE add(IF Head(bits) THEN 1 ELSE 0, double(le_bits_to_fp_var(Tail(bits))))

\* The number of low bits layer 1 drops.
FRACTION_BITS == 22

\* shifted_bits with the slice starting one bit early.
shifted_bits_one_short(linear_combination_bits) ==
    IF Len(linear_combination_bits) > FRACTION_BITS
    THEN SubSeq(linear_combination_bits, FRACTION_BITS,
                Len(linear_combination_bits))
    ELSE <<FALSE>>

shifted_bits(linear_combination_bits) ==
    IF Len(linear_combination_bits) > FRACTION_BITS
    THEN SubSeq(linear_combination_bits, FRACTION_BITS + 1,
                Len(linear_combination_bits))
    ELSE <<FALSE>>

(***************************************************************************)
(* The comparison gadget FpVar::is_cmp of ark-r1cs-std, as the code calls  *)
(* it.  It yields the Boolean it computes and whether the range            *)
(* constraints it records on its two operands are satisfied.               *)
(***************************************************************************)
process_cmp_inputs(self, other, ordering, should_also_check_equality) ==
    LET left  == IF ordering = "Less" THEN self ELSE other
        right == IF ordering = "Less" THEN other ELSE self
    IN  <<left, IF should_also_check_equality THEN add(right, 1) ELSE right>>

enforce_smaller_or_equal_than_mod_minus_one_div_two(v) ==
    v <= MODULUS_MINUS_ONE_DIV_TWO

\* is_smaller_than_unchecked with the difference not doubled: its lowest bit
\* is then the parity of the difference, not its sign.
is_smaller_than_unchecked_not_doubled(left, right) ==
    to_bits_le(sub(left, right))[1]

is_smaller_than_unchecked(left, right) ==
    to_bits_le(double(sub(left, right)))[1]

is_cmp(self, other, ordering, should_also_check_equality) ==
    LET lr == process_cmp_inputs(self, other, ordering,
                                 should_also_check_equality)
    IN  [value     |-> is_smaller_than_unchecked(lr[1], lr[2]),
         satisfied |-> /\ enforce_smaller_or_equal_than_mod_minus_one_div_two(lr[1])
                       /\ enforce_smaller_or_equal_than_mod_minus_one_div_two(lr[2])]

\* Boolean::select: the first value when the condition is true.
select(cond, first, second) == IF cond THEN first ELSE second

(***************************************************************************)
(* The sponge.                                                             *)
(***************************************************************************)
get_poseidon_config ==
    [full_rounds    |-> 8,
     partial_rounds |-> 57,
     alpha          |-> 5,
     mds            |-> << <<1, 2, 3>>, <<4, 5, 6>>, <<7, 8, 9>> >>,
     ark            |-> [i \in 1..65 |-> <<i - 1, i, i + 1>>],
     rate           |-> 2,
     capacity       |-> 1]

\* The value of a local that holds parameters before it is assigned.
NoConfig ==
    [full_rounds |-> 0, partial_rounds |-> 0, alpha |-> 0, mds |-> <<>>,
     ark |-> <<>>, rate |-> 0, capacity |-> 0]

\* A sponge that is not constructed yet.
NoSponge == [phase |-> "none", params |-> NoConfig, absorbed |-> <<>>, squeezed |-> 0]

\* A digest-valued local before it is assigned.
NoDigest == <<>>

\* PoseidonSponge::new / PoseidonSpongeVar::new
new(params) ==
    [phase |-> "absorbing", params |-> params, absorbed |-> <<>>, squeezed |-> 0]

\* A plain field element as a term the sponge absorbs.
elem(v) == <<v>>

\* absorb of one field element or one digest
absorb(sponge, term) ==
    [sponge EXCEPT !.absorbed = Append(@, term)]

\* The sum of the plain field elements among the terms.
RECURSIVE plain_sum(_)
plain_sum(terms) ==
    IF terms = <<>> THEN 0
    ELSE add(IF Len(Head(terms)) = 1 THEN Head(terms)[1] ELSE 0,
             plain_sum(Tail(terms)))

\* squeezed_element of a sponge that adds up what it absorbs, whatever the
\* order.
squeezed_element_sum(sponge) ==
    <<sponge.params, <<plain_sum(sponge.absorbed)>>, sponge.squeezed + 1>>

\* The element squeeze_field_elements(1)[0] returns (squeeze_native_field_elements
\* is the same function on the native field).
squeezed_element(sponge) ==
    <<sponge.params, sponge.absorbed, sponge.squeezed + 1>>

\* The sponge after squeeze_field_elements(1).
squeeze_field_elements(sponge) ==
    [sponge EXCEPT !.phase = "squeezing", !.squeezed = @ + 1]

\* A for loop that absorbs every element of a vector in order.
RECURSIVE absorb_each(_, _)
absorb_each(sponge, terms) ==
    IF terms = <<>> THEN sponge
    ELSE absorb_each(absorb(sponge, Head(terms)), Tail(terms))

\* for var in vector: the elements as terms, in iteration order.
vector_terms(vector) == [i \in 1..Len(vector) |-> elem(vector[i])]

\* matrix_terms with the first row alone absorbed.
matrix_terms_first_row_only(matrix) ==
    IF matrix = <<>> THEN <<>> ELSE vector_terms(Head(matrix))

\* for row in matrix { for var in row { ... } }: the elements in iteration order.
RECURSIVE matrix_terms(_)
matrix_terms(matrix) ==
    IF matrix = <<>> THEN <<>>
    ELSE vector_terms(Head(matrix)) \o matrix_terms(Tail(matrix))

(***************************************************************************)
(* The two linear layers.                                                  *)
(***************************************************************************)
\* for (i, val) in row.iter().enumerate() { linear_combination += val * vec[i] }
RECURSIVE accumulate(_, _, _, _)
accumulate(linear_combination, row, vec, i) ==
    IF i > Len(row) THEN linear_combination
    ELSE accumulate(add(linear_combination, mul(row[i], vec[i])), row, vec, i + 1)

\* The value of linear_combination after the bias is added.
affine(row, vec, bias) == add(accumulate(0, row, vec, 1), bias)

\* The value the closure of intermediate_var computes from linear_combination.
intermediate_value(linear_combination) ==
    le_bits_to_fp_var(shifted_bits(to_bits_le(linear_combination)))

\* final_value with the rescale of layer 1 applied to layer 2 as well.
final_value_rescaled(linear_combination) ==
    intermediate_value(linear_combination)

\* The value the closure of final_var computes from linear_combination.
final_value(linear_combination) == linear_combination

\* relu with the two values of the select exchanged.
relu_select_swapped(val, zero_relu_var) ==
    LET cmp == is_cmp(val, zero_relu_var, "Greater", TRUE)
    IN  [value     |-> select(cmp.value, zero_relu_var, val),
         satisfied |-> cmp.satisfied]

\* One element of the activation: the comparison and the select on its result.
relu(val, zero_relu_var) ==
    LET cmp == is_cmp(val, zero_relu_var, "Greater", TRUE)
    IN  [value     |-> select(cmp.value, val, zero_relu_var),
         satisfied |-> cmp.satisfied]

\* argmax_step with max_value left at final_result[0].
argmax_step_stale_maximum(val, max_value_, index_, max_index_) ==
    LET is_greater == is_cmp(val, max_value_, "Greater", TRUE)
        next_index == add(index_, 1)
    IN  [index     |-> next_index,
         max_value |-> max_value_,
         max_index |-> select(is_greater.value, next_index, max_index_),
         satisfied |-> is_greater.satisfied]

\* argmax_step whose running counter is advanced after the selects.
argmax_step_late_counter(val, max_value_, index_, max_index_) ==
    LET is_greater == is_cmp(val, max_value_, "Greater", TRUE)
    IN  [index     |-> add(index_, 1),
         max_value |-> select(is_greater.value, val, max_value_),
         max_index |-> select(is_greater.value, index_, max_index_),
         satisfied |-> is_greater.satisfied]

\* One iteration of the arg-max loop on the element val.
argmax_step(val, max_value_, index_, max_index_) ==
    LET is_greater == is_cmp(val, max_value_, "Greater", TRUE)
        next_index == add(index_, 1)
    IN  [index     |-> next_index,
         max_value |-> select(is_greater.value, val, max_value_),
         max_index |-> select(is_greater.value, next_index, max_index_),
         satisfied |-> is_greater.satisfied]

(***************************************************************************)
(* The absorb sequences of the two stages of the commitment.               *)
(***************************************************************************)
\* model_terms with the biases absorbed before the weights.
model_terms_biases_first(w1_vars, w2_vars, b1_vars, b2_vars, zero_relu_var) ==
    vector_terms(b1_vars) \o vector_terms(b2_vars)
        \o matrix_terms(w1_vars) \o matrix_terms(w2_vars)
        \o <<elem(zero_relu_var)>>

\* generate_constraints, lines 133-152: what Stage A absorbs, in order.
model_terms(w1_vars, w2_vars, b1_vars, b2_vars, zero_relu_var) ==
    matrix_terms(w1_vars) \o matrix_terms(w2_vars)
        \o vector_terms(b1_vars) \o vector_terms(b2_vars)
        \o <<elem(zero_relu_var)>>

\* inference_terms with the fingerprint absorbed before the class index.
inference_terms_hash_first(input_vars, output_var, hash_var) ==
    vector_terms(input_vars) \o <<hash_var>> \o <<elem(output_var)>>

\* generate_constraints, lines 157-161: what Stage B absorbs, in order.
inference_terms(input_vars, output_var, hash_var) ==
    vector_terms(input_vars) \o <<elem(output_var)>> \o <<hash_var>>

\* compute_model_var, lines 322-342: what sponge1 absorbs, in order.
reference_model_terms(w1, w2, b1, b2, zero) ==
    matrix_terms(w1) \o matrix_terms(w2) \o vector_terms(b1) \o vector_terms(b2)
        \o <<elem(zero)>>

\* reference_inference_terms with the output absorbed before the input.
reference_terms_output_first(in, output, hash) ==
    <<elem(output)>> \o vector_terms(in) \o <<hash>>

\* compute_model_var, lines 346-351: what sponge2 absorbs, in order.
reference_inference_terms(in, output, hash) ==
    vector_terms(in) \o <<elem(output)>> \o <<hash>>

(***************************************************************************)
(* State.                                                                  *)
(***************************************************************************)
VARIABLES
    pc,                  \* where main / generate_constraints / compute_model_var is
    assignment,          \* "closure": every witness holds the value its closure
                         \* computes (a run of the program); "free": a witness the
                         \* circuit allocates may hold any value (an assignment of
                         \* the constraint system)
    weight_1, weight_2, input, bias_1, bias_2, zero_relu,
    expected_output,     \* main: the value loaded from expected_output.txt
    public_statement,    \* main: what compute_model_var returned
    sponge_params, sponge1, hash_model, sponge2,          \* compute_model_var
    cs,                  \* the constraint system generate_constraints fills
    iter,                \* the position of the running for loop
    linear_combination_1,\* layer 1: linear_combination of every row so far
    intermediate_result,
    relu_result,
    linear_combination_2,\* layer 2: linear_combination of every row so far
    final_result,
    max_value, index, max_index,
    computed_output_var,
    poseidon_config, sponge_model, hash_model_var,
    sponge_inference, hash_inference_var,
    public_statement_var,
    pk, vk,              \* main: what circuit_specific_setup returned
    proof,               \* main: what prove returned
    public_inputs,       \* main: the public-input list given to verify
    is_valid,            \* main: what verify returned
    saved,               \* the files main wrote
    first_run,           \* what an earlier run of the program on this machine
                         \* produced, when there was one
    disk,                \* token examples: the files on disk, by resolved path
    cli,                 \* tcp_proof_system main: what Cli::parse returned
    tcp_pc,              \* tcp_proof_system main: where it is
    ran,                 \* the modes this invocation of main has run
    exit_status,         \* how this invocation of main ended
    calls,               \* the invocations of main so far
    log,                 \* the NFT calls so far, each with what it did
    data,                \* burn_proof_system utils: the bytes to save
    file_pc,             \* ... whether the file is saved, or damaged since
    save_result,         \* ... what save_to_file returned
    read_result          \* ... what read_from_file returned

vars ==
    <<pc, assignment, weight_1, weight_2, input, bias_1, bias_2, zero_relu,
      expected_output, public_statement, sponge_params, sponge1, hash_model,
      sponge2, cs, iter, linear_combination_1, intermediate_result, relu_result,
      linear_combination_2, final_result, max_value, index, max_index,
      computed_output_var, poseidon_config, sponge_model, hash_model_var,
      sponge_inference, hash_inference_var, public_statement_var, pk, vk,
      proof, public_inputs, is_valid, saved, first_run, disk, cli, tcp_pc, ran,
      exit_status, calls, log, data, file_pc, save_result, read_result>>

utils == <<data, file_pc, save_result, read_result>>

\* The state of the token examples.
token_examples == <<disk, cli, tcp_pc, ran, exit_status, calls, log, utils>>

params == <<assignment, weight_1, weight_2, input, bias_1, bias_2, zero_relu,
            expected_output>>

reference == <<sponge_params, sponge1, hash_model, sponge2, public_statement>>

layers == <<linear_combination_1, intermediate_result, relu_result,
            linear_combination_2, final_result>>

argmax == <<max_value, index, max_index>>

commitment == <<poseidon_config, sponge_model, hash_model_var, sponge_inference,
                hash_inference_var, public_statement_var>>

proving == <<pk, vk, proof, public_inputs, is_valid, saved>>

(***************************************************************************)
(* The parameter files main loads (integers, one row per line).            *)
(***************************************************************************)
diagonal(rows, cols, d) ==
    [i \in 1..rows |-> [j \in 1..cols |-> IF i = j THEN d ELSE 0]]

Weight1Files(h, n) == {diagonal(h, n, 1)}

Weight2Files(m, h) == {diagonal(m, h, d) : d \in {1, -1}}

InputFiles(n) ==
    {[i \in 1..n |-> IF i = 1 THEN v ELSE 0] :
        v \in {2 ^ 22 - 1, 2 ^ 23 - 1, 2 ^ 23}}

Bias1Files(h) == {[j \in 1..h |-> v] : v \in {0, 1, -1}}

Bias2Files(m) == [1..m -> {3, 5}] \cup {[j \in 1..m |-> 0]}

ZeroReluFiles == {0, 1, -1}

ExpectedOutputFiles == {0, 1}

\* load_vector: every integer of the file as a field element
load_vector(file) == [i \in 1..Len(file) |-> from_i64(file[i])]

\* load_matrix
load_matrix(file) == [i \in 1..Len(file) |-> load_vector(file[i])]

\* load_value
load_value(file) == from_i64(file)

\* new_witness with a value that depends on something outside the run: whether
\* the program ran before.
new_witness_reads_earlier_run(closure, free) ==
    IF first_run.kind = "none" THEN {closure} ELSE {add(closure, 1)}

\* The values a witness allocated with new_witness may hold, given the value its
\* closure computes: new_witness records no constraint on it.
new_witness(closure, free) ==
    IF assignment = "closure" THEN {closure} ELSE {closure} \cup free

\* Values an assignment may give the witnesses of layer 1 and layer 2.
FreeIntermediate == {from_i64(-3), 0, 4}

FreeFinal == {5}

(***************************************************************************)
(* Groth16, as main uses it.  A verifying key is for a number of public    *)
(* inputs and comes from the randomness of its setup; a proof records      *)
(* whether the assignment it was made from satisfies the constraint        *)
(* system, the instance of that assignment, the key it was made under and  *)
(* its own randomness.                                                     *)
(***************************************************************************)
\* What ChaChaRng::from_entropy may draw.
Entropy == {1, 2}

NoKey == [public_inputs |-> 0, trapdoor |-> 0]

NoProvingKey == [vk |-> NoKey]

NoProof == [satisfied |-> FALSE, instance |-> <<>>, vk |-> NoKey, randomness |-> 0]

\* Groth16::verify on a list of as many public inputs as the key is for: true
\* exactly for a proof made under this key from a satisfying assignment with
\* this instance.
verify(vk_, public_inputs_, proof_) ==
    /\ proof_.satisfied
    /\ proof_.vk = vk_
    /\ proof_.instance = public_inputs_

\* ConstraintSystem::new_ref(), line 199
new_ref ==
    [witness |-> <<>>, instance |-> <<>>, range_checks |-> <<>>, equalities |-> <<>>]

\* No earlier run.
NoRun == [kind |-> "none", params |-> <<>>, results |-> <<>>]

(***************************************************************************)
(* token_examples/proof_of_burn: files.  A path is the sequence of the     *)
(* pieces the code concatenates, the separator "/" being a piece of its    *)
(* own; the disk maps a resolved path to the bytes of the file.  Results   *)
(* are records: kind is "Ok", "Err" or "panic".                            *)
(***************************************************************************)
Ok(value) == [kind |-> "Ok", value |-> value, error |-> ""]

Err(error) == [kind |-> "Err", value |-> <<>>, error |-> error]

Panic(error) == [kind |-> "panic", value |-> <<>>, error |-> error]

\* `.map_err(..)?` on a result that is not Ok: the function returns the error
\* under the new message; a panic is not a result and goes on as it is.
failed(result, error) == IF result.kind = "panic" THEN result ELSE Err(error)

\* The directories and the file name of a path, as the operating system
\* resolves it: repeated separators leave no empty component.
RECURSIVE components(_, _)
components(path, current) ==
    LET finished == IF current = "" THEN <<>> ELSE <<current>>
    IN  IF path = <<>> THEN finished
        ELSE IF Head(path) = "/"
             THEN finished \o components(Tail(path), "")
             ELSE components(Tail(path), current \o Head(path))

resolve(path) == components(path, "")

NoFiles == [file \in {} |-> <<>>]

\* The disk after the file is created or replaced.
written(fs, file_path, bytes) ==
    [file \in DOMAIN fs \cup {resolve(file_path)} |->
        IF file = resolve(file_path) THEN bytes ELSE fs[file]]

\* (n as u64).to_le_bytes(): the given number of bytes, lowest first.
RECURSIVE le_bytes(_, _)
le_bytes(n, width) ==
    IF width = 0 THEN <<>> ELSE <<n % 256>> \o le_bytes(n \div 256, width - 1)

to_le_bytes(n) == le_bytes(n, 8)

\* u64::from_le_bytes as far as the number matters below: the number itself
\* up to `most`, and most + 1 for every larger one.
RECURSIVE from_le_bytes(_, _)
from_le_bytes(bytes, most) ==
    IF bytes = <<>> THEN 0
    ELSE LET number == 256 * from_le_bytes(Tail(bytes), most) + Head(bytes)
         IN  IF number > most THEN most + 1 ELSE number

\* Whether the number is above isize::MAX = 2^63 - 1: the top bit is set.
above_isize_max(bytes) == bytes[8] >= 128

\* Where a save_to_file call may fail.
SaveFaults == {"none", "create_dir_all", "create", "write_length", "write_data"}

\* utils.rs, lines 8-17.  File::create leaves an empty file; a failed
\* write_all leaves what was written before it.
save_to_file(bytes, file_path, fs, fault) ==
    CASE fault \in {"create_dir_all", "create"} ->
            [disk |-> fs, result |-> Err(fault)]
      [] fault = "write_length" ->
            [disk |-> written(fs, file_path, <<>>), result |-> Err(fault)]
      [] fault = "write_data" ->
            [disk |-> written(fs, file_path, to_le_bytes(Len(bytes))),
             result |-> Err(fault)]
      [] OTHER ->
            [disk |-> written(fs, file_path, to_le_bytes(Len(bytes)) \o bytes),
             result |-> Ok(<<>>)]

\* utils.rs, lines 20-30, on a target whose usize has 64 bits.  vec![0; len]
\* panics when len is above isize::MAX.
read_from_file(file_path, fs) ==
    IF resolve(file_path) \notin DOMAIN fs THEN Err("open")
    ELSE LET file == fs[resolve(file_path)]
         IN  IF Len(file) < 8 THEN Err("read_exact")
             ELSE IF above_isize_max(SubSeq(file, 1, 8))
                  THEN Panic("capacity overflow")
                  ELSE LET len == from_le_bytes(SubSeq(file, 1, 8), Len(file))
                       IN  IF len > Len(file) - 8 THEN Err("read_exact")
                           ELSE Ok(SubSeq(file, 9, 8 + len))

(***************************************************************************)
(* token_examples/proof_of_burn/tcp_proof_system: the NFT implementation   *)
(* of UniversalTCPSnark, nft/groth16_nft.rs.  A key, a proof or a          *)
(* processed input is an item [type, fields]; the library's setup, prove,  *)
(* msg_to_input_hash and verify are outside the repository: setup draws    *)
(* the key material `key`, a proof names the keys and the public input it  *)
(* was made for, and it verifies under exactly those.                      *)
(***************************************************************************)
KEYS_PATH == <<"data", "/", "keys", "/">>

PROOFS_PATH == <<"data", "/", "proofs", "/">>

\* The serialised types and the number of fields of each.
Types == <<"main_pk", "help_pk", "help_vk", "main_vk", "proof", "processed_input">>

Fields == <<1, 1, 1, 1, 3, 2>>

TypeCode(type) == CHOOSE code \in 1..Len(Types) : Types[code] = type

Item(type, fields) == [type |-> type, fields |-> fields]

\* util.rs data_to_serialisation: the bytes of an item.
data_to_serialisation(item) == <<TypeCode(item.type)>> \o item.fields

\* CanonicalDeserialize::deserialize_unchecked for the given type.
deserialize_unchecked(type, bytes) ==
    IF /\ bytes # <<>>
       /\ bytes[1] = TypeCode(type)
       /\ Len(bytes) = 1 + Fields[TypeCode(type)]
    THEN Ok(Item(type, Tail(bytes)))
    ELSE Err("deserialize")

\* What UniversalTransactionChainProofSNARK::setup returns for key material
\* `key`: the proving key, of which the verifying key is a part.
generated(key) ==
    [crh_pp   |-> <<key>>,
     main_pk  |-> Item("main_pk", <<key>>),
     help_pk  |-> Item("help_pk", <<key>>),
     help_vk  |-> Item("help_vk", <<key>>),
     main_pvk |-> Item("main_vk", <<key>>)]

\* The save_to_file calls of setup, in their order, lines 84-108.
setup_saves(pk_) ==
    << [bytes |-> pk_.crh_pp, name |-> <<"crh_pp_seed.bin">>,
        error |-> "Failed to save crh_pp"],
       [bytes |-> data_to_serialisation(pk_.main_pk), name |-> <<"main_pk.bin">>,
        error |-> "Failed to save main_pk"],
       [bytes |-> data_to_serialisation(pk_.help_pk), name |-> <<"help_pk.bin">>,
        error |-> "Failed to save help_pk"],
       [bytes |-> data_to_serialisation(pk_.help_vk), name |-> <<"help_vk.bin">>,
        error |-> "Failed to save help_vk"],
       [bytes |-> data_to_serialisation(pk_.main_pvk), name |-> <<"main_vk.bin">>,
        error |-> "Failed to save main_vk"] >>

\* The saves from the k-th on, each ending the function when it fails (`?`);
\* the save number `failing` meets the fault.
RECURSIVE save_each(_, _, _, _, _)
save_each(saves, k, fs, failing, fault) ==
    IF k > Len(saves) THEN [disk |-> fs, result |-> Ok(<<>>)]
    ELSE LET saved_ == save_to_file(saves[k].bytes, KEYS_PATH \o saves[k].name,
                                    fs, IF k = failing THEN fault ELSE "none")
         IN  IF saved_.result.kind = "Ok"
             THEN save_each(saves, k + 1, saved_.disk, failing, fault)
             ELSE [disk |-> saved_.disk, result |-> Err(saves[k].error)]

\* Lines 82-111.
UniversalTCPSnark_setup(fs, key, failing, fault) ==
    save_each(setup_saves(generated(key)), 1, fs, failing, fault)

\* load_pk that takes absent key files for the key material 0.
load_pk_defaulting(fs) ==
    Ok([crh_pp |-> <<0>>, main_pk |-> Item("main_pk", <<0>>),
        main_pvk |-> Item("main_vk", <<0>>), help_pk |-> Item("help_pk", <<0>>),
        help_vk |-> Item("help_vk", <<0>>)])

\* Lines 190-214.
load_pk(fs) ==
    LET crh_pp_seed_bytes ==
            read_from_file(KEYS_PATH \o <<"/", "crh_pp_seed.bin">>, fs)
        main_pk_bytes == read_from_file(KEYS_PATH \o <<"/", "main_pk.bin">>, fs)
        help_pk_bytes == read_from_file(KEYS_PATH \o <<"/", "help_pk.bin">>, fs)
        main_pk == deserialize_unchecked("main_pk", main_pk_bytes.value)
        help_pk == deserialize_unchecked("help_pk", help_pk_bytes.value)
    IN  CASE crh_pp_seed_bytes.kind # "Ok" ->
                failed(crh_pp_seed_bytes, "Failed to read crh_pp")
          [] main_pk_bytes.kind # "Ok" ->
                failed(main_pk_bytes, "Failed to read main_pk")
          [] help_pk_bytes.kind # "Ok" ->
                failed(help_pk_bytes, "Failed to read help_pk")
          [] main_pk.kind # "Ok" -> Err("Failed to deserialize main_pk")
          [] help_pk.kind # "Ok" -> Err("Failed to deserialize help_pk")
          [] OTHER ->
                Ok([crh_pp   |-> crh_pp_seed_bytes.value,
                    main_pk  |-> main_pk.value,
                    main_pvk |-> Item("main_vk", main_pk.value.fields),
                    help_pk  |-> help_pk.value,
                    help_vk  |-> Item("help_vk", help_pk.value.fields)])

\* Lines 217-231.
load_vk(fs) ==
    LET crh_pp_seed_bytes ==
            read_from_file(KEYS_PATH \o <<"/", "crh_pp_seed.bin">>, fs)
        help_vk_bytes == read_from_file(KEYS_PATH \o <<"/", "help_vk.bin">>, fs)
        help_vk == deserialize_unchecked("help_vk", help_vk_bytes.value)
    IN  CASE crh_pp_seed_bytes.kind # "Ok" ->
                failed(crh_pp_seed_bytes, "Failed to read crh_pp")
          [] help_vk_bytes.kind # "Ok" ->
                failed(help_vk_bytes, "Failed to read help_vk")
          [] help_vk.kind # "Ok" -> Err("Failed to deserialize help_vk")
          [] OTHER -> Ok([crh_pp |-> crh_pp_seed_bytes.value,
                          help_vk |-> help_vk.value])

\* What a call of the NFT interface did: the disk it leaves, its result,
\* whether it got past key loading and the prior proof given to the prover
\* ("None", "Some", or "-" when the prover was not called).
Done(fs, result, loaded, prior_proof) ==
    [disk |-> fs, result |-> result, loaded |-> loaded,
     prior_proof |-> prior_proof]

\* The public input of a proof, lines 117, 165, 184 (From<ProvingData>,
\* From<VerifyingData>); the transaction ids of the model are well-formed.
public_input_of(value) == value.public_inputs.outpoint_txid

\* Lines 114-133.  `hashed` is whether msg_to_input_hash succeeds.
UniversalTCPSnark_process_input(proving_data, fs, hashed, fault) ==
    LET vk_ == load_vk(fs)
        processed_input ==
            Item("processed_input",
                 vk_.value.crh_pp \o <<public_input_of(proving_data)>>)
        processed_input_path ==
            PROOFS_PATH \o <<proving_data.proof_name, "_processed_input.bin">>
        saved_ == save_to_file(data_to_serialisation(processed_input),
                               processed_input_path, fs, fault)
    IN  CASE vk_.kind # "Ok" ->
                Done(fs, failed(vk_, "Failed to load vk"), FALSE, "-")
          [] ~hashed ->
                Done(fs, Err("Failed to process the public input"), TRUE, "-")
          [] saved_.result.kind # "Ok" ->
                Done(saved_.disk,
                     Err("Failed to save the processed public input"), TRUE, "-")
          [] OTHER -> Done(saved_.disk, Ok(<<>>), TRUE, "-")

\* hex::decode and Tx::read of the witness transaction, lines 141-150; "zz"
\* is not hexadecimal.
TxOf(tx) ==
    CASE tx = "" -> Ok("None")
      [] tx = "zz" -> Err("Failed to hex decode witness tx")
      [] OTHER -> Ok("Some")

\* Lines 151-162: `.ok()` turns a failed deserialisation into None.
prior_proof_of(witness, fs) ==
    IF witness.prior_proof_path = "" THEN Ok("None")
    ELSE LET prior_proof_path ==
                 PROOFS_PATH \o <<witness.prior_proof_path, ".bin">>
             bytes == read_from_file(prior_proof_path, fs)
         IN  IF bytes.kind # "Ok"
             THEN failed(bytes, "Failed to read prior proof")
             ELSE IF deserialize_unchecked("proof", bytes.value).kind = "Ok"
                  THEN Ok("Some")
                  ELSE Ok("None")

\* Lines 136-175.  `proved` is whether the library's prove succeeds (its
\* result is unwrapped).
UniversalTCPSnark_prove(proving_data, fs, proved, fault) ==
    LET pk_ == load_pk(fs)
        tx == TxOf(proving_data.witness.tx)
        prior_proof == prior_proof_of(proving_data.witness, fs)
        proof_ == Item("proof", pk_.value.help_vk.fields \o pk_.value.crh_pp
                                \o <<public_input_of(proving_data)>>)
        proof_path == PROOFS_PATH \o <<proving_data.proof_name, ".bin">>
        saved_ == save_to_file(data_to_serialisation(proof_), proof_path, fs,
                               fault)
    IN  CASE pk_.kind # "Ok" ->
                Done(fs, failed(pk_, "Failed to load pk"), FALSE, "-")
          [] tx.kind # "Ok" -> Done(fs, tx, TRUE, "-")
          [] prior_proof.kind # "Ok" -> Done(fs, prior_proof, TRUE, "-")
          [] ~proved ->
                Done(fs, Panic("unwrap"), TRUE, prior_proof.value)
          [] saved_.result.kind # "Ok" ->
                Done(saved_.disk, Err("Failed to save proof"), TRUE,
                     prior_proof.value)
          [] OTHER -> Done(saved_.disk, Ok(<<>>), TRUE, prior_proof.value)

\* The library's verify: the proof is valid under the keys and for the
\* public input it was made for.
tcp_verify(vk_, public_input, proof_) ==
    proof_.fields = vk_.help_vk.fields \o vk_.crh_pp \o <<public_input>>

\* Lines 178-187.
UniversalTCPSnark_verify(verifying_data, fs) ==
    LET vk_ == load_vk(fs)
        proof_path == PROOFS_PATH \o <<verifying_data.proof_path, ".bin">>
        bytes == read_from_file(proof_path, fs)
        proof_ == deserialize_unchecked("proof", bytes.value)
    IN  CASE vk_.kind # "Ok" ->
                Done(fs, failed(vk_, "Failed to load vk"), FALSE, "-")
          [] bytes.kind # "Ok" -> Done(fs, Panic("unwrap"), TRUE, "-")
          [] proof_.kind # "Ok" ->
                Done(fs, Err("Failed to deserialize proof"), TRUE, "-")
          [] OTHER ->
                Done(fs, Ok(tcp_verify(vk_.value, public_input_of(verifying_data),
                                       proof_.value)), TRUE, "-")

\* The result of a call that was not made yet.
NotYet == [kind |-> "none", value |-> <<>>, error |-> ""]

\* Before Cli::parse.
NoCli == [setup |-> FALSE, process |-> FALSE, prove |-> FALSE, verify |-> FALSE,
          file |-> ""]

\* The token examples before anything ran.
NoTokenExample ==
    /\ disk = NoFiles
    /\ cli = NoCli
    /\ tcp_pc = "start"
    /\ ran = <<>>
    /\ exit_status = "none"
    /\ calls = 0
    /\ log = <<>>
    /\ data = <<>>
    /\ file_pc = "start"
    /\ save_result = NotYet
    /\ read_result = NotYet

(***************************************************************************)
(* main, lines 176-183: the parameters are loaded; compute_model_var is    *)
(* about to run.                                                           *)
(***************************************************************************)
Loaded(assign, w1, w2, in, b1, b2, zero, output) ==
    /\ pc = "cmv_stage_a"
    /\ assignment = assign
    /\ weight_1 = load_matrix(w1)
    /\ weight_2 = load_matrix(w2)
    /\ input = load_vector(in)
    /\ bias_1 = load_vector(b1)
    /\ bias_2 = load_vector(b2)
    /\ zero_relu = load_value(zero)
    /\ expected_output = load_value(output)
    /\ public_statement = NoDigest
    /\ sponge_params = NoConfig
    /\ sponge1 = NoSponge
    /\ hash_model = NoDigest
    /\ sponge2 = NoSponge
    /\ cs = new_ref
    /\ iter = 0
    /\ linear_combination_1 = <<>>
    /\ intermediate_result = <<>>
    /\ relu_result = <<>>
    /\ linear_combination_2 = <<>>
    /\ final_result = <<>>
    /\ max_value = 0
    /\ index = 0
    /\ max_index = 0
    /\ computed_output_var = 0
    /\ poseidon_config = NoConfig
    /\ sponge_model = NoSponge
    /\ hash_model_var = NoDigest
    /\ sponge_inference = NoSponge
    /\ hash_inference_var = NoDigest
    /\ public_statement_var = NoDigest
    /\ pk = NoProvingKey
    /\ vk = NoKey
    /\ proof = NoProof
    /\ public_inputs = <<>>
    /\ is_valid = FALSE
    /\ saved = <<>>
    /\ first_run = NoRun
    /\ NoTokenExample

\* A run of the program.
Init ==
    \E n \in 1..MaxN, h \in 1..MaxH, m \in 1..MaxM :
        \E w1 \in Weight1Files(h, n), w2 \in Weight2Files(m, h),
           in \in InputFiles(n), b1 \in Bias1Files(h), b2 \in Bias2Files(m),
           zero \in ZeroReluFiles, output \in ExpectedOutputFiles :
            Loaded("closure", w1, w2, in, b1, b2, zero, output)

\* The assignments of the constraint system of one small network.
InitAssign ==
    \E h \in 1..MaxH, m \in 1..MaxM, output \in ExpectedOutputFiles :
        Loaded("free", diagonal(h, 1, 1), diagonal(m, h, 1), <<2 ^ 23>>,
               [j \in 1..h |-> 0], [j \in 1..m |-> IF j = 1 THEN 5 ELSE 3], 0,
               output)

(***************************************************************************)
(* compute_model_var, called by main at line 183.                          *)
(***************************************************************************)
\* Lines 318-343: Stage A, the model hash.
ComputeModelHash ==
    /\ pc = "cmv_stage_a"
    /\ LET config == get_poseidon_config
           absorbed == absorb_each(new(config),
                                   reference_model_terms(weight_1, weight_2,
                                                         bias_1, bias_2,
                                                         zero_relu))
       IN  /\ sponge_params' = config
           /\ hash_model' = squeezed_element(absorbed)
           /\ sponge1' = squeeze_field_elements(absorbed)
    /\ pc' = "cmv_stage_b"
    /\ UNCHANGED <<params, proving, first_run, token_examples,
                   public_statement, sponge2, cs, iter, layers, argmax,
                   computed_output_var, commitment>>

\* Stage B of compute_model_var with parameters of its own: one partial round
\* fewer than get_poseidon_config.
ComputePublicStatement_own_parameters ==
    /\ pc = "cmv_stage_b"
    /\ LET own == [sponge_params EXCEPT !.partial_rounds = @ - 1]
           absorbed == absorb_each(new(own),
                                   reference_inference_terms(input, expected_output,
                                                             hash_model))
       IN  /\ public_statement' = squeezed_element(absorbed)
           /\ sponge2' = squeeze_field_elements(absorbed)
    /\ pc' = "gc_assert"
    /\ UNCHANGED <<params, proving, first_run, token_examples,
                   sponge_params, sponge1, hash_model, cs, iter, layers, argmax,
                   computed_output_var, commitment>>

\* Lines 345-353: Stage B; the squeezed element is returned to main, line 183.
ComputePublicStatement ==
    /\ pc = "cmv_stage_b"
    /\ LET absorbed == absorb_each(new(sponge_params),
                                   reference_inference_terms(input, expected_output,
                                                             hash_model))
       IN  /\ public_statement' = squeezed_element(absorbed)
           /\ sponge2' = squeeze_field_elements(absorbed)
    /\ pc' = "gc_assert"
    /\ UNCHANGED <<params, proving, first_run, token_examples,
                   sponge_params, sponge1, hash_model, cs, iter, layers,
                   argmax, computed_output_var, commitment>>

(***************************************************************************)
(* generate_constraints, called by main at line 202.                       *)
(***************************************************************************)
\* ShapeAsserts with line 41 left out.
ShapeAsserts_first_layer_only ==
    /\ pc = "gc_assert"
    /\ pc' = IF /\ Len(weight_1) >= 1
                /\ Len(weight_1[1]) = Len(input)
             THEN "gc_alloc" ELSE "panic"
    /\ UNCHANGED <<params, proving, first_run, token_examples, reference, cs, iter, layers,
                   argmax, computed_output_var, commitment>>

\* Lines 40-41: weight_1[0] and weight_2[0] are indexed and the two assert_eq run.
ShapeAsserts ==
    /\ pc = "gc_assert"
    /\ pc' = IF /\ Len(weight_1) >= 1
                /\ Len(weight_1[1]) = Len(input)
                /\ Len(weight_2) >= 1
                /\ Len(weight_2[1]) = Len(weight_1)
             THEN "gc_alloc" ELSE "panic"
    /\ UNCHANGED <<params, proving, first_run, token_examples,
                   reference, cs, iter, layers, argmax,
                   computed_output_var, commitment>>

\* One name per call of new_witness, in the order of the calls.
RECURSIVE matrix_names(_, _)
matrix_names(matrix, name) ==
    IF matrix = <<>> THEN <<>>
    ELSE [i \in 1..Len(Head(matrix)) |-> name] \o matrix_names(Tail(matrix), name)

\* Lines 44-72: the private inputs become witnesses.
AllocateWitnesses ==
    /\ pc = "gc_alloc"
    /\ cs' = [cs EXCEPT !.witness =
                @ \o [i \in 1..Len(input) |-> "input"]
                  \o [i \in 1..Len(bias_1) |-> "bias_1"]
                  \o [i \in 1..Len(bias_2) |-> "bias_2"]
                  \o matrix_names(weight_1, "weight_1")
                  \o matrix_names(weight_2, "weight_2")
                  \o <<"zero_relu">>]
    /\ iter' = 1
    /\ pc' = "gc_layer1"
    /\ UNCHANGED <<params, proving, first_run, token_examples,
                   reference, layers, argmax, computed_output_var,
                   commitment>>

\* Lines 76-91: one row of layer 1; line 75 and the loop's end.
Layer1Row ==
    /\ pc = "gc_layer1"
    /\ iter <= Len(weight_1)
    /\ IF Len(weight_1[iter]) > Len(input) \/ iter > Len(bias_1)
       THEN /\ pc' = "panic"
            /\ UNCHANGED <<cs, iter, layers>>
       ELSE LET linear_combination ==
                    affine(weight_1[iter], input, bias_1[iter])
            IN  /\ linear_combination_1' =
                        Append(linear_combination_1, linear_combination)
                /\ \E intermediate_var \in
                        new_witness(intermediate_value(linear_combination),
                                    FreeIntermediate) :
                        intermediate_result' =
                            Append(intermediate_result, intermediate_var)
                /\ cs' = [cs EXCEPT !.witness = Append(@, "intermediate_var")]
                /\ iter' = iter + 1
                /\ pc' = pc
                /\ UNCHANGED <<relu_result, linear_combination_2, final_result>>
    /\ UNCHANGED <<params, proving, first_run, token_examples,
                   reference, argmax, computed_output_var, commitment>>

\* Lines 94-101: the activation of every element of intermediate_result.
ApplyRelu ==
    /\ pc = "gc_layer1"
    /\ iter > Len(weight_1)
    /\ relu_result' =
           [i \in 1..Len(intermediate_result) |->
               relu(intermediate_result[i], zero_relu).value]
    /\ cs' = [cs EXCEPT !.range_checks =
                @ \o [i \in 1..Len(intermediate_result) |->
                        [gadget |-> "relu",
                         satisfied |->
                             relu(intermediate_result[i], zero_relu).satisfied]]]
    /\ iter' = 1
    /\ pc' = "gc_layer2"
    /\ UNCHANGED <<params, proving, first_run, token_examples,
                   reference, linear_combination_1, intermediate_result,
                   linear_combination_2, final_result, argmax,
                   computed_output_var, commitment>>

\* Lines 105-114: one row of layer 2.
Layer2Row ==
    /\ pc = "gc_layer2"
    /\ iter <= Len(weight_2)
    /\ IF Len(weight_2[iter]) > Len(relu_result) \/ iter > Len(bias_2)
       THEN /\ pc' = "panic"
            /\ UNCHANGED <<cs, iter, layers>>
       ELSE LET linear_combination ==
                    affine(weight_2[iter], relu_result, bias_2[iter])
            IN  /\ linear_combination_2' =
                        Append(linear_combination_2, linear_combination)
                /\ \E final_var \in
                        new_witness(final_value(linear_combination), FreeFinal) :
                        final_result' = Append(final_result, final_var)
                /\ cs' = [cs EXCEPT !.witness = Append(@, "final_var")]
                /\ iter' = iter + 1
                /\ pc' = pc
                /\ UNCHANGED <<linear_combination_1, intermediate_result,
                               relu_result>>
    /\ UNCHANGED <<params, proving, first_run, token_examples,
                   reference, argmax, computed_output_var, commitment>>

\* Lines 117-119: final_result[0] is indexed; the loop starts at the second
\* element.
ArgmaxInit ==
    /\ pc = "gc_layer2"
    /\ iter > Len(weight_2)
    /\ IF Len(final_result) = 0
       THEN /\ pc' = "panic"
            /\ UNCHANGED <<argmax, iter>>
       ELSE /\ max_value' = final_result[1]
            /\ index' = 0
            /\ max_index' = 0
            /\ iter' = 2
            /\ pc' = "gc_argmax"
    /\ UNCHANGED <<params, proving, first_run, token_examples,
                   reference, cs, layers, computed_output_var, commitment>>

\* Lines 120-125: one iteration of the arg-max loop.
ArgmaxStep ==
    /\ pc = "gc_argmax"
    /\ iter <= Len(final_result)
    /\ LET step == argmax_step(final_result[iter], max_value, index, max_index)
       IN  /\ index' = step.index
           /\ max_value' = step.max_value
           /\ max_index' = step.max_index
           /\ cs' = [cs EXCEPT !.range_checks =
                        Append(@, [gadget |-> "argmax",
                                   satisfied |-> step.satisfied])]
    /\ iter' = iter + 1
    /\ UNCHANGED <<pc, params, proving, first_run, token_examples,
                   reference, layers, computed_output_var, commitment>>

\* AllocateOutput whose witness holds the expected output of the file.
AllocateOutput_from_expected_output ==
    /\ pc = "gc_argmax"
    /\ iter > Len(final_result)
    /\ computed_output_var' = expected_output
    /\ cs' = [cs EXCEPT !.witness = Append(@, "computed_output_var")]
    /\ pc' = "gc_sponge_model"
    /\ UNCHANGED <<params, proving, first_run, token_examples,
                   reference, iter, layers, argmax, commitment>>

\* AllocateOutput with the class index allocated as a public input.
AllocateOutput_as_public_input ==
    /\ pc = "gc_argmax"
    /\ iter > Len(final_result)
    /\ computed_output_var' = max_index
    /\ cs' = [cs EXCEPT !.instance = Append(@, max_index)]
    /\ pc' = "gc_sponge_model"
    /\ UNCHANGED <<params, proving, first_run, token_examples, reference, iter, layers, argmax,
                   commitment>>

\* Line 126: the class index becomes a witness.
AllocateOutput ==
    /\ pc = "gc_argmax"
    /\ iter > Len(final_result)
    /\ \E output \in new_witness(max_index, {expected_output}) :
            computed_output_var' = output
    /\ cs' = [cs EXCEPT !.witness = Append(@, "computed_output_var")]
    /\ pc' = "gc_sponge_model"
    /\ UNCHANGED <<params, proving, first_run, token_examples,
                   reference, iter, layers, argmax, commitment>>

\* Lines 129-130
NewSpongeModel ==
    /\ pc = "gc_sponge_model"
    /\ poseidon_config' = get_poseidon_config
    /\ sponge_model' = new(get_poseidon_config)
    /\ pc' = "gc_absorb_model"
    /\ UNCHANGED <<params, proving, first_run, token_examples,
                   reference, cs, iter, layers, argmax,
                   computed_output_var, hash_model_var, sponge_inference,
                   hash_inference_var, public_statement_var>>

\* Lines 133-152
AbsorbModel ==
    /\ pc = "gc_absorb_model"
    /\ sponge_model' = absorb_each(sponge_model,
                                   model_terms(weight_1, weight_2, bias_1, bias_2,
                                               zero_relu))
    /\ pc' = "gc_squeeze_model"
    /\ UNCHANGED <<params, proving, first_run, token_examples,
                   reference, cs, iter, layers, argmax,
                   computed_output_var, poseidon_config, hash_model_var,
                   sponge_inference, hash_inference_var, public_statement_var>>

\* Line 153
SqueezeModel ==
    /\ pc = "gc_squeeze_model"
    /\ hash_model_var' = squeezed_element(sponge_model)
    /\ sponge_model' = squeeze_field_elements(sponge_model)
    /\ pc' = "gc_sponge_inference"
    /\ UNCHANGED <<params, proving, first_run, token_examples,
                   reference, cs, iter, layers, argmax,
                   computed_output_var, poseidon_config, sponge_inference,
                   hash_inference_var, public_statement_var>>

\* NewSpongeInference with the Stage A sponge used again for Stage B.
NewSpongeInference_reuses_sponge_model ==
    /\ pc = "gc_sponge_inference"
    /\ sponge_inference' = sponge_model
    /\ pc' = "gc_absorb_inference"
    /\ UNCHANGED <<params, proving, first_run, token_examples, reference, cs, iter, layers,
                   argmax, computed_output_var, poseidon_config, sponge_model,
                   hash_model_var, hash_inference_var, public_statement_var>>

\* Line 156
NewSpongeInference ==
    /\ pc = "gc_sponge_inference"
    /\ sponge_inference' = new(poseidon_config)
    /\ pc' = "gc_absorb_inference"
    /\ UNCHANGED <<params, proving, first_run, token_examples,
                   reference, cs, iter, layers, argmax,
                   computed_output_var, poseidon_config, sponge_model,
                   hash_model_var, hash_inference_var, public_statement_var>>

\* Lines 157-161
AbsorbInference ==
    /\ pc = "gc_absorb_inference"
    /\ sponge_inference' = absorb_each(sponge_inference,
                                       inference_terms(input, computed_output_var,
                                                       hash_model_var))
    /\ pc' = "gc_squeeze_inference"
    /\ UNCHANGED <<params, proving, first_run, token_examples,
                   reference, cs, iter, layers, argmax,
                   computed_output_var, poseidon_config, sponge_model,
                   hash_model_var, hash_inference_var, public_statement_var>>

\* Line 162
SqueezeInference ==
    /\ pc = "gc_squeeze_inference"
    /\ hash_inference_var' = squeezed_element(sponge_inference)
    /\ sponge_inference' = squeeze_field_elements(sponge_inference)
    /\ pc' = "gc_public"
    /\ UNCHANGED <<params, proving, first_run, token_examples,
                   reference, cs, iter, layers, argmax,
                   computed_output_var, poseidon_config, sponge_model,
                   hash_model_var, public_statement_var>>

\* The equalities generate_constraints enforces on line 167.
enforced_equalities(digest, statement) == << <<digest, statement>> >>

\* Lines 164-170: the public input, the equality and Ok(()).
EnforceStatement ==
    /\ pc = "gc_public"
    /\ public_statement_var' = public_statement
    /\ cs' = [cs EXCEPT !.instance = Append(@, public_statement),
                        !.equalities =
                            @ \o enforced_equalities(hash_inference_var,
                                                     public_statement)]
    /\ pc' = "gc_ok"
    /\ UNCHANGED <<params, proving, first_run, token_examples,
                   reference, iter, layers, argmax, computed_output_var,
                   poseidon_config, sponge_model, hash_model_var,
                   sponge_inference, hash_inference_var>>

Next ==
    \/ ComputeModelHash
    \/ ComputePublicStatement
    \/ ShapeAsserts
    \/ AllocateWitnesses
    \/ Layer1Row
    \/ ApplyRelu
    \/ Layer2Row
    \/ ArgmaxInit
    \/ ArgmaxStep
    \/ AllocateOutput
    \/ NewSpongeModel
    \/ AbsorbModel
    \/ SqueezeModel
    \/ NewSpongeInference
    \/ AbsorbInference
    \/ SqueezeInference
    \/ EnforceStatement

Spec == Init /\ [][Next]_vars

SpecAssign == InitAssign /\ [][Next]_vars

\* Whether the assignment satisfies every constraint recorded so far.
is_satisfied ==
    /\ \A i \in 1..Len(cs.range_checks) : cs.range_checks[i].satisfied
    /\ \A i \in 1..Len(cs.equalities) : cs.equalities[i][1] = cs.equalities[i][2]

(***************************************************************************)
(* The rest of main, lines 202-236.  circuit_specific_setup and prove each *)
(* synthesise circuit.clone() again; the model takes the constraint system *)
(* of line 202 for theirs.                                                 *)
(***************************************************************************)
\* Lines 202-209: generate_constraints returned Ok(()), the setup draws from rng.
Setup ==
    /\ pc = "gc_ok"
    /\ \E trapdoor \in Entropy :
          /\ vk' = [public_inputs |-> Len(cs.instance), trapdoor |-> trapdoor]
          /\ pk' = [vk |-> vk']
    /\ pc' = "main_prove"
    /\ UNCHANGED <<params, first_run, token_examples, reference, cs, iter, layers, argmax,
                   computed_output_var, commitment, proof, public_inputs,
                   is_valid, saved>>

\* Lines 212-213: the prover.  Built with debug assertions it asserts that the
\* assignment satisfies the constraint system; without them it returns a proof
\* of whatever assignment it was given.
Prove ==
    /\ pc = "main_prove"
    /\ \E debug_assertions \in BOOLEAN, randomness \in Entropy :
          IF debug_assertions /\ ~is_satisfied
          THEN /\ pc' = "panic"
               /\ UNCHANGED proof
          ELSE /\ proof' = [satisfied |-> is_satisfied, instance |-> cs.instance,
                            vk |-> pk.vk, randomness |-> randomness]
               /\ pc' = "main_verify"
    /\ UNCHANGED <<params, first_run, token_examples, reference, cs, iter, layers, argmax,
                   computed_output_var, commitment, pk, vk, public_inputs,
                   is_valid, saved>>

\* Lines 216-217: verify against &[public_statement]; a list of another length
\* than the key is for is an Err, which main returns.
Verify ==
    /\ pc = "main_verify"
    /\ public_inputs' = <<public_statement>>
    /\ IF Len(public_inputs') # vk.public_inputs
       THEN /\ pc' = "err"
            /\ UNCHANGED is_valid
       ELSE /\ is_valid' = verify(vk, public_inputs', proof)
            /\ pc' = "main_assert"
    /\ UNCHANGED <<params, first_run, token_examples, reference, cs, iter, layers, argmax,
                   computed_output_var, commitment, pk, vk, proof, saved>>

\* Line 218: assert!(is_valid, "Proof is invalid")
AssertValid ==
    /\ pc = "main_assert"
    /\ pc' = IF is_valid THEN "main_save" ELSE "panic"
    /\ UNCHANGED <<params, first_run, token_examples, reference, cs, iter, layers, argmax,
                   computed_output_var, commitment, proving>>

\* Lines 221-236: the three files are written and main returns Ok(()).
Save ==
    /\ pc = "main_save"
    /\ saved' = <<[file_path |-> "proof/proof.json", item |-> proof],
                  [file_path |-> "proof/verifying_key.json", item |-> vk],
                  [file_path |-> "proof/public_inputs.json",
                   item |-> <<public_statement>>]>>
    /\ pc' = "done"
    /\ UNCHANGED <<params, first_run, token_examples, reference, cs, iter, layers, argmax,
                   computed_output_var, commitment, pk, vk, proof,
                   public_inputs, is_valid>>

\* main from line 176 to its end.
NextMain ==
    \/ Next
    \/ Setup
    \/ Prove
    \/ Verify
    \/ AssertValid
    \/ Save

(***************************************************************************)
(* Parameter files of every shape, the malformed ones included: a network  *)
(* of a consistent shape with at most one defect.                          *)
(***************************************************************************)
zeros(k) == [j \in 1..k |-> 0]

\* One more column in every row.
wider(matrix) == [i \in 1..Len(matrix) |-> Append(matrix[i], 0)]

\* One more column in the last row only.
last_row_longer(matrix) ==
    [i \in 1..Len(matrix) |->
        IF i = Len(matrix) THEN Append(matrix[i], 0) ELSE matrix[i]]

\* One column less in the last row only.
last_row_shorter(matrix) ==
    [i \in 1..Len(matrix) |->
        IF i = Len(matrix) THEN SubSeq(matrix[i], 1, Len(matrix[i]) - 1)
        ELSE matrix[i]]

shorter(vector) == SubSeq(vector, 1, Len(vector) - 1)

Defects ==
    {"none", "w1_columns", "w2_columns", "b1_short", "b1_long", "b2_short",
     "b2_long", "w1_ragged_long", "w1_ragged_short", "w2_ragged_long",
     "w2_ragged_short", "w1_empty", "w2_empty"}

ParameterFiles(n, h, m, b2, defect) ==
    LET w1 == diagonal(h, n, 1)
        w2 == diagonal(m, h, 1)
        b1 == zeros(h)
    IN  [weight_1 |-> CASE defect = "w1_columns" -> wider(w1)
                        [] defect = "w1_ragged_long" -> last_row_longer(w1)
                        [] defect = "w1_ragged_short" -> last_row_shorter(w1)
                        [] defect = "w1_empty" -> <<>>
                        [] OTHER -> w1,
         weight_2 |-> CASE defect = "w2_columns" -> wider(w2)
                        [] defect = "w2_ragged_long" -> last_row_longer(w2)
                        [] defect = "w2_ragged_short" -> last_row_shorter(w2)
                        [] defect = "w2_empty" -> <<>>
                        [] OTHER -> w2,
         input    |-> [i \in 1..n |-> IF i = 1 THEN 2 ^ 23 ELSE 0],
         bias_1   |-> CASE defect = "b1_short" -> shorter(b1)
                        [] defect = "b1_long" -> Append(b1, 0)
                        [] OTHER -> b1,
         bias_2   |-> CASE defect = "b2_short" -> shorter(b2)
                        [] defect = "b2_long" -> Append(b2, 0)
                        [] OTHER -> b2]

\* A run of the program on parameter files of any shape.
InitMain ==
    \E n \in 1..MaxN, h \in 1..MaxH, m \in 1..MaxM, defect \in Defects :
        \E b2 \in {zeros(m), [j \in 1..m |-> IF j = 2 THEN 5 ELSE 3]},
           output \in ExpectedOutputFiles :
            LET files == ParameterFiles(n, h, m, b2, defect)
            IN  Loaded("closure", files.weight_1, files.weight_2, files.input,
                       files.bias_1, files.bias_2, 0, output)

SpecMain == InitMain /\ [][NextMain]_vars

\* main is one sequential program: while a step remains, it is taken.
SpecMainFair == SpecMain /\ WF_vars(NextMain)

(***************************************************************************)
(* Two runs, one after the other.  When a run has ended, what it was given *)
(* and what it produced is kept in first_run and a second run starts: on   *)
(* the same parameter files, on the files of another model, or (the        *)
(* circuit and the rest of main alone) with one weight changed and the     *)
(* public statement of the first run.                                      *)
(***************************************************************************)
\* What a run was given.
Parameters ==
    [weight_1 |-> weight_1, weight_2 |-> weight_2, bias_1 |-> bias_1,
     bias_2 |-> bias_2, zero_relu |-> zero_relu, input |-> input,
     expected_output |-> expected_output]

\* What a run produced: where it ended, every value compute_model_var and
\* generate_constraints computed, the constraint system, and main's verdict.
Results ==
    [pc |-> pc,
     linear_combination_1 |-> linear_combination_1,
     intermediate_result |-> intermediate_result,
     relu_result |-> relu_result,
     linear_combination_2 |-> linear_combination_2,
     final_result |-> final_result,
     max_index |-> max_index,
     computed_output_var |-> computed_output_var,
     sponge1 |-> sponge1, hash_model |-> hash_model, sponge2 |-> sponge2,
     public_statement |-> public_statement,
     sponge_model |-> sponge_model, hash_model_var |-> hash_model_var,
     sponge_inference |-> sponge_inference,
     hash_inference_var |-> hash_inference_var,
     cs |-> cs,
     is_valid |-> is_valid]

\* The locals of generate_constraints and of the rest of main, as a new run
\* finds them.
FreshCircuit ==
    /\ cs' = new_ref
    /\ iter' = 0
    /\ linear_combination_1' = <<>>
    /\ intermediate_result' = <<>>
    /\ relu_result' = <<>>
    /\ linear_combination_2' = <<>>
    /\ final_result' = <<>>
    /\ max_value' = 0
    /\ index' = 0
    /\ max_index' = 0
    /\ computed_output_var' = 0
    /\ poseidon_config' = NoConfig
    /\ sponge_model' = NoSponge
    /\ hash_model_var' = NoDigest
    /\ sponge_inference' = NoSponge
    /\ hash_inference_var' = NoDigest
    /\ public_statement_var' = NoDigest
    /\ pk' = NoProvingKey
    /\ vk' = NoKey
    /\ proof' = NoProof
    /\ public_inputs' = <<>>
    /\ is_valid' = FALSE
    /\ saved' = <<>>

\* The locals of compute_model_var and its result, as a new run finds them.
FreshReference ==
    /\ sponge_params' = NoConfig
    /\ sponge1' = NoSponge
    /\ hash_model' = NoDigest
    /\ sponge2' = NoSponge
    /\ public_statement' = NoDigest

\* The program is run again on the same parameter files.
RunAgain ==
    /\ pc \in {"done", "panic"}
    /\ first_run = NoRun
    /\ first_run' = [kind |-> "again", params |-> Parameters, results |-> Results]
    /\ pc' = "cmv_stage_a"
    /\ FreshReference
    /\ FreshCircuit
    /\ UNCHANGED <<params, token_examples>>

\* The parameter files of the model of shape (n, h, m) whose parameters, in
\* the order W1, W2, b1, b2, threshold and row by row, are 1, 0, 1, 0, ...
ModelFiles(n, h, m) ==
    LET value(k) == k % 2
    IN  [weight_1 |-> [j \in 1..h |-> [i \in 1..n |-> value((j - 1) * n + i)]],
         weight_2 |-> [j \in 1..m |->
                         [i \in 1..h |-> value(h * n + (j - 1) * h + i)]],
         bias_1   |-> [j \in 1..h |-> value(h * n + m * h + j)],
         bias_2   |-> [j \in 1..m |-> value(h * n + m * h + h + j)],
         zero_relu |-> value(h * n + m * h + h + m + 1),
         input    |-> [i \in 1..n |-> IF i = 1 THEN 2 ^ 23 ELSE 0]]

\* The program is run on the parameter files of another model.
RunOther ==
    /\ pc \in {"done", "panic"}
    /\ first_run = NoRun
    /\ first_run' = [kind |-> "other", params |-> Parameters, results |-> Results]
    /\ \E n \in 1..MaxN, h \in 1..MaxH, m \in 1..MaxM :
          LET files == ModelFiles(n, h, m)
          IN  /\ weight_1' = load_matrix(files.weight_1)
              /\ weight_2' = load_matrix(files.weight_2)
              /\ bias_1' = load_vector(files.bias_1)
              /\ bias_2' = load_vector(files.bias_2)
              /\ zero_relu' = load_value(files.zero_relu)
              /\ input' = load_vector(files.input)
    /\ pc' = "cmv_stage_a"
    /\ FreshReference
    /\ FreshCircuit
    /\ UNCHANGED <<assignment, expected_output, token_examples>>

\* The values a changed weight takes.
ChangedWeights == {0, 1, 2, from_i64(-1)}

\* After a run whose proof verified, the circuit is built again with one
\* element of W1 or W2 changed and the public statement of that run, and the
\* rest of main runs on it.
MutateWeight ==
    /\ pc = "done"
    /\ first_run = NoRun
    /\ first_run' = [kind |-> "mutated", params |-> Parameters, results |-> Results]
    /\ \E value \in ChangedWeights :
          \/ \E j \in 1..Len(weight_1) : \E i \in 1..Len(weight_1[j]) :
                /\ value # weight_1[j][i]
                /\ weight_1' = [weight_1 EXCEPT ![j][i] = value]
                /\ UNCHANGED weight_2
          \/ \E j \in 1..Len(weight_2) : \E i \in 1..Len(weight_2[j]) :
                /\ value # weight_2[j][i]
                /\ weight_2' = [weight_2 EXCEPT ![j][i] = value]
                /\ UNCHANGED weight_1
    /\ pc' = "gc_assert"
    /\ FreshCircuit
    /\ UNCHANGED <<assignment, input, bias_1, bias_2, zero_relu,
                   expected_output, reference, token_examples>>

NextTwoRuns ==
    \/ NextMain
    \/ RunAgain
    \/ RunOther
    \/ MutateWeight

\* A run of the program on a model of a consistent shape.
InitTwoRuns ==
    \E n \in 1..MaxN, h \in 1..MaxH, m \in 1..MaxM,
       output \in ExpectedOutputFiles :
        LET files == ModelFiles(n, h, m)
        IN  Loaded("closure", files.weight_1, files.weight_2, files.input,
                   files.bias_1, files.bias_2, files.zero_relu, output)

SpecTwoRuns == InitTwoRuns /\ [][NextTwoRuns]_vars

(***************************************************************************)
(* token_examples/proof_of_burn/tcp_proof_system/src/main.rs: invocations  *)
(* of the command-line program, one after the other, on one disk.          *)
(***************************************************************************)
MaxCalls == 3

inference ==
    <<pc, params, proving, first_run, reference, cs, iter, layers, argmax,
      computed_output_var, commitment>>

\* ai_inference is not running.
NoInference ==
    /\ pc = "idle"
    /\ assignment = "closure"
    /\ weight_1 = <<>>
    /\ weight_2 = <<>>
    /\ input = <<>>
    /\ bias_1 = <<>>
    /\ bias_2 = <<>>
    /\ zero_relu = 0
    /\ expected_output = 0
    /\ public_statement = NoDigest
    /\ sponge_params = NoConfig
    /\ sponge1 = NoSponge
    /\ hash_model = NoDigest
    /\ sponge2 = NoSponge
    /\ cs = new_ref
    /\ iter = 0
    /\ linear_combination_1 = <<>>
    /\ intermediate_result = <<>>
    /\ relu_result = <<>>
    /\ linear_combination_2 = <<>>
    /\ final_result = <<>>
    /\ max_value = 0
    /\ index = 0
    /\ max_index = 0
    /\ computed_output_var = 0
    /\ poseidon_config = NoConfig
    /\ sponge_model = NoSponge
    /\ hash_model_var = NoDigest
    /\ sponge_inference = NoSponge
    /\ hash_inference_var = NoDigest
    /\ public_statement_var = NoDigest
    /\ pk = NoProvingKey
    /\ vk = NoKey
    /\ proof = NoProof
    /\ public_inputs = <<>>
    /\ is_valid = FALSE
    /\ saved = <<>>
    /\ first_run = NoRun

\* The contents of the data files given with --file.
ProofNames == {"a"}

Txs == {"", "zz", "0100"}

PriorProofPaths == {"", "a", "a_processed_input"}

Txids == {1, 2}

ProvingDataFiles ==
    [proof_name    : ProofNames,
     public_inputs : [outpoint_txid : Txids],
     witness       : [tx : Txs, prior_proof_path : PriorProofPaths]]

\* Where the save_to_file call of a mode may fail.
Faults == {"none", "write_data"}

\* The key material a setup may draw.
KeyMaterial == {1}

\* process mode does not read the witness of its data file.
NoWitnessData == [tx |-> "", prior_proof_path |-> ""]

VerifyingDataFiles ==
    [proof_path    : PriorProofPaths \ {""},
     public_inputs : [outpoint_txid : Txids]]

\* What the log keeps of a call: the invocation of main that made it, the
\* result, and for a verify that returned Ok whether the proof was valid.
Entry(op, done, witness) ==
    [op               |-> op,
     call             |-> calls,
     valid            |-> IF op = "verify" /\ done.result.kind = "Ok"
                          THEN (IF done.result.value THEN "true" ELSE "false")
                          ELSE "-",
     kind             |-> done.result.kind,
     error            |-> done.result.error,
     loaded           |-> done.loaded,
     prior_proof_path |-> witness.prior_proof_path,
     prior_file       |-> witness.prior_file,
     prior_proof      |-> done.prior_proof]

NoWitness == [prior_proof_path |-> "", prior_file |-> "-"]

\* `.unwrap()` of the result of a mode, line 19, 22, 25.
unwrapped(result) == IF result.kind = "Ok" THEN "ok" ELSE "panic: unwrap"

\* Line 15: Cli::parse().  It ends the program when the arguments are not
\* accepted; otherwise any of the four flags may be set.
TcpParse ==
    /\ tcp_pc \in {"start", "exit"}
    /\ calls < MaxCalls
    /\ calls' = calls + 1
    /\ ran' = <<>>
    /\ \/ /\ cli' = NoCli
          /\ exit_status' = "usage"
          /\ tcp_pc' = "exit"
       \/ /\ \E setup, process, prove, verify_ \in BOOLEAN :
                cli' = [setup |-> setup, process |-> process, prove |-> prove,
                        verify |-> verify_, file |-> "file.toml"]
          /\ exit_status' = "running"
          /\ tcp_pc' = "dispatch"
    /\ UNCHANGED <<inference, disk, log, utils>>

\* Lines 17-19: setup mode.  SetupData::load and the setup are unwrapped.
TcpSetup ==
    /\ tcp_pc = "dispatch"
    /\ cli.setup
    /\ ran' = Append(ran, "setup")
    /\ \/ /\ exit_status' = "panic: unwrap"
          /\ UNCHANGED <<disk, log>>
       \/ \E key \in KeyMaterial, failing \in 0..5, fault \in Faults \ {"none"} :
             LET done == UniversalTCPSnark_setup(disk, key, failing, fault)
             IN  /\ disk' = done.disk
                 /\ log' = Append(log, Entry("setup",
                                             Done(done.disk, done.result, FALSE,
                                                  "-"), NoWitness))
                 /\ exit_status' = unwrapped(done.result)
    /\ tcp_pc' = "exit"
    /\ UNCHANGED <<inference, cli, calls, utils>>

\* Lines 20-22: process mode.
TcpProcess ==
    /\ tcp_pc = "dispatch"
    /\ ~cli.setup
    /\ cli.process
    /\ ran' = Append(ran, "process")
    /\ \/ /\ exit_status' = "panic: unwrap"
          /\ UNCHANGED <<disk, log>>
       \/ \E proving_data \in ProvingDataFiles, hashed \in BOOLEAN,
             fault \in Faults :
             LET done == UniversalTCPSnark_process_input(proving_data, disk,
                                                         hashed, fault)
             IN  /\ proving_data.witness = NoWitnessData
                 /\ disk' = done.disk
                 /\ log' = Append(log, Entry("process_input", done, NoWitness))
                 /\ exit_status' = unwrapped(done.result)
    /\ tcp_pc' = "exit"
    /\ UNCHANGED <<inference, cli, calls, utils>>

\* What the prior-proof file of the witness is on the disk.
PriorFile(witness, fs) ==
    LET bytes == read_from_file(PROOFS_PATH \o <<witness.prior_proof_path, ".bin">>,
                                fs)
    IN  CASE witness.prior_proof_path = "" -> "-"
          [] bytes.kind # "Ok" -> "unreadable"
          [] deserialize_unchecked("proof", bytes.value).kind = "Ok" -> "proof"
          [] OTHER -> "other"

\* Prove mode tested before process mode.
TcpProve_before_process ==
    /\ tcp_pc = "dispatch"
    /\ ~cli.setup
    /\ cli.prove
    /\ ran' = Append(ran, "prove")
    /\ \/ /\ exit_status' = "panic: unwrap"
          /\ UNCHANGED <<disk, log>>
       \/ \E proving_data \in ProvingDataFiles, proved \in BOOLEAN,
             fault \in Faults :
             LET done == UniversalTCPSnark_prove(proving_data, disk, proved,
                                                 fault)
                 witness == [prior_proof_path |->
                                 proving_data.witness.prior_proof_path,
                             prior_file |-> PriorFile(proving_data.witness, disk)]
             IN  /\ disk' = done.disk
                 /\ log' = Append(log, Entry("prove", done, witness))
                 /\ exit_status' = unwrapped(done.result)
    /\ tcp_pc' = "exit"
    /\ UNCHANGED <<inference, cli, calls, utils>>

\* Lines 23-25: prove mode.
TcpProve ==
    /\ tcp_pc = "dispatch"
    /\ ~cli.setup
    /\ ~cli.process
    /\ cli.prove
    /\ ran' = Append(ran, "prove")
    /\ \/ /\ exit_status' = "panic: unwrap"
          /\ UNCHANGED <<disk, log>>
       \/ \E proving_data \in ProvingDataFiles, proved \in BOOLEAN,
             fault \in Faults :
             LET done == UniversalTCPSnark_prove(proving_data, disk, proved,
                                                 fault)
                 witness == [prior_proof_path |->
                                 proving_data.witness.prior_proof_path,
                             prior_file |-> PriorFile(proving_data.witness, disk)]
             IN  /\ disk' = done.disk
                 /\ log' = Append(log, Entry("prove", done, witness))
                 /\ exit_status' = unwrapped(done.result)
    /\ tcp_pc' = "exit"
    /\ UNCHANGED <<inference, cli, calls, utils>>

\* Lines 26-32: verify mode; the result is unwrapped and asserted.
TcpVerify ==
    /\ tcp_pc = "dispatch"
    /\ ~cli.setup
    /\ ~cli.process
    /\ ~cli.prove
    /\ cli.verify
    /\ ran' = Append(ran, "verify")
    /\ \/ /\ exit_status' = "panic: unwrap"
          /\ UNCHANGED <<disk, log>>
       \/ \E verifying_data \in VerifyingDataFiles :
             LET done == UniversalTCPSnark_verify(verifying_data, disk)
             IN  /\ disk' = done.disk
                 /\ log' = Append(log, Entry("verify", done, NoWitness))
                 /\ exit_status' =
                        IF done.result.kind # "Ok" THEN "panic: unwrap"
                        ELSE IF done.result.value THEN "ok"
                             ELSE "panic: Proof not valid."
    /\ tcp_pc' = "exit"
    /\ UNCHANGED <<inference, cli, calls, utils>>

\* Line 33: no flag is set and main returns.
TcpNoMode ==
    /\ tcp_pc = "dispatch"
    /\ ~cli.setup
    /\ ~cli.process
    /\ ~cli.prove
    /\ ~cli.verify
    /\ exit_status' = "ok"
    /\ tcp_pc' = "exit"
    /\ UNCHANGED <<inference, disk, cli, ran, calls, log, utils>>

NextTcp ==
    \/ TcpParse
    \/ TcpSetup
    \/ TcpProcess
    \/ TcpProve
    \/ TcpVerify
    \/ TcpNoMode

InitTcp == NoInference /\ NoTokenExample

SpecTcp == InitTcp /\ [][NextTcp]_vars

(***************************************************************************)
(* token_examples/proof_of_burn/burn_proof_system/src/utils.rs: a byte     *)
(* sequence is saved to a file and the file is read; in between the file   *)
(* may be cut short or have a byte changed by something else.              *)
(***************************************************************************)
MaxLen == 2

Bytes == {0, 1, 255}

RECURSIVE ByteStrings(_)
ByteStrings(len) ==
    IF len = 0 THEN {<<>>}
    ELSE LET shorter_ == ByteStrings(len - 1)
         IN  shorter_ \cup {Append(d, b) : d \in {s \in shorter_ : Len(s) = len - 1},
                                         b \in Bytes}

FilePath == <<"data", "/", "file.bin">>

TcpIdle ==
    /\ cli = NoCli
    /\ tcp_pc = "start"
    /\ ran = <<>>
    /\ exit_status = "none"
    /\ calls = 0
    /\ log = <<>>

tcp == <<cli, tcp_pc, ran, exit_status, calls, log>>

\* save_to_file(&data, path), with the fault it may meet.
SaveToFile ==
    /\ file_pc = "start"
    /\ \E fault \in SaveFaults :
          LET saved_ == save_to_file(data, FilePath, disk, fault)
          IN  /\ disk' = saved_.disk
              /\ save_result' = saved_.result
    /\ file_pc' = "saved"
    /\ UNCHANGED <<inference, tcp, data, read_result>>

\* Something else cuts the file short.
Truncate ==
    /\ file_pc \in {"saved", "damaged"}
    /\ read_result = NotYet
    /\ resolve(FilePath) \in DOMAIN disk
    /\ \E len \in 0..(Len(disk[resolve(FilePath)]) - 1) :
          disk' = written(disk, FilePath, SubSeq(disk[resolve(FilePath)], 1, len))
    /\ file_pc' = "damaged"
    /\ UNCHANGED <<inference, tcp, data, save_result, read_result>>

\* Something else changes a byte of the file.
Overwrite ==
    /\ file_pc = "saved"
    /\ read_result = NotYet
    /\ resolve(FilePath) \in DOMAIN disk
    /\ \E k \in 1..Len(disk[resolve(FilePath)]), byte \in Bytes :
          /\ byte # disk[resolve(FilePath)][k]
          /\ disk' = written(disk, FilePath,
                             [disk[resolve(FilePath)] EXCEPT ![k] = byte])
    /\ file_pc' = "damaged"
    /\ UNCHANGED <<inference, tcp, data, save_result, read_result>>

\* read_from_file(path).
ReadFromFile ==
    /\ file_pc \in {"saved", "damaged"}
    /\ read_result = NotYet
    /\ read_result' = read_from_file(FilePath, disk)
    /\ UNCHANGED <<inference, tcp, disk, data, file_pc, save_result>>

NextFile ==
    \/ SaveToFile
    \/ Truncate
    \/ Overwrite
    \/ ReadFromFile

InitFile ==
    /\ NoInference
    /\ TcpIdle
    /\ disk = NoFiles
    /\ data \in ByteStrings(MaxLen)
    /\ file_pc = "start"
    /\ save_result = NotYet
    /\ read_result = NotYet

SpecFile == InitFile /\ [][NextFile]_vars

(***************************************************************************)
(* Properties.                                                             *)
(***************************************************************************)
\* The sum of a row times a vector plus a bias, from the last term down.
RECURSIVE RowSum(_, _, _, _)
RowSum(row, vec, bias, k) ==
    IF k = 0 THEN bias
    ELSE add(RowSum(row, vec, bias, k - 1), mul(row[k], vec[k]))

\* The elements of a rectangular matrix, row after row, as absorbed terms.
RowMajor(matrix) ==
    LET cols == IF matrix = <<>> THEN 0 ELSE Len(matrix[1])
    IN  [k \in 1..(Len(matrix) * cols) |->
            <<matrix[((k - 1) \div cols) + 1][((k - 1) % cols) + 1]>>]

Terms(vector) == [k \in 1..Len(vector) |-> <<vector[k]>>]

\* W1 row-major, W2 row-major, b1, b2, the threshold.
StageAOrder ==
    RowMajor(weight_1) \o RowMajor(weight_2) \o Terms(bias_1) \o Terms(bias_2)
        \o << <<zero_relu>> >>

\* The input, the class index, the fingerprint.
StageBOrder(output, fingerprint) ==
    Terms(input) \o << <<output>> >> \o <<fingerprint>>

\* The arg-max loop has run to its end.
ArgmaxDone ==
    \/ pc = "gc_argmax" /\ iter > Len(final_result)
    \/ pc \in {"gc_sponge_model", "gc_absorb_model", "gc_squeeze_model",
               "gc_sponge_inference", "gc_absorb_inference",
               "gc_squeeze_inference", "gc_public", "gc_ok"}

\* The activation has been applied.
ReluDone ==
    pc \notin {"cmv_stage_a", "cmv_stage_b", "gc_assert", "gc_alloc", "gc_layer1",
               "panic"}

\* Every range constraint a comparison of the given gadget recorded is satisfied.
InRange(gadget) ==
    \A i \in 1..Len(cs.range_checks) :
        cs.range_checks[i].gadget = gadget => cs.range_checks[i].satisfied

\* The lowest position of a maximum of a non-empty vector.
LowestMaximum(f) ==
    CHOOSE k \in 1..Len(f) :
        /\ \A i \in 1..Len(f) : f[i] <= f[k]
        /\ \A i \in 1..(k - 1) : f[i] < f[k]

\* C1: in every assignment that satisfies all constraints of the circuit, the
\* layer-1 witnesses, the layer-2 witnesses and the class-index witness equal
\* the values computed from the witnessed weights, biases, input and
\* threshold, so the absorbed class index is the arg-max of the second layer.
C1_WitnessesAreForced ==
    (pc = "gc_ok" /\ is_satisfied) =>
        /\ \A j \in 1..Len(intermediate_result) :
              intermediate_result[j] = linear_combination_1[j] \div (2 ^ 22)
        /\ \A j \in 1..Len(final_result) :
              final_result[j] = linear_combination_2[j]
        /\ computed_output_var = max_index

\* C2: the index the arg-max loop produces is the lowest index of a maximum of
\* the final logits (the first occurrence wins a tie), for logits the
\* comparisons accept.
C2_LowestIndexWinsTies ==
    (assignment = "closure" /\ ArgmaxDone /\ InRange("relu") /\ InRange("argmax")) =>
        max_index = LowestMaximum(final_result) - 1

\* The logits 5, 5, 3 are reached and the loop ends with index 1.
C2_Witness ==
    /\ ArgmaxDone
    /\ InRange("relu") /\ InRange("argmax")
    /\ final_result = <<5, 5, 3>>
    /\ max_index = 1

\* C3: for final logits in the range the comparisons accept, the index the
\* arg-max loop produces is an index of the vector and no logit is greater
\* than the one at that index.
C3_ArgmaxIsAMaximum ==
    (ArgmaxDone /\ InRange("argmax")) =>
        /\ max_index \in 0..(Len(final_result) - 1)
        /\ \A k \in 1..Len(final_result) :
              final_result[max_index + 1] >= final_result[k]
        /\ max_value = final_result[max_index + 1]

C3_Witness ==
    /\ ArgmaxDone
    /\ InRange("argmax")
    /\ Len(final_result) = 3
    /\ max_index = 1
    /\ final_result[2] > final_result[1]
    /\ final_result[2] > final_result[3]

\* C4: every output of layer 1 is the canonical representative of
\* sum_i W1[j][i]*x[i] + b1[j] with its low 22 bits dropped, floor(v / 2^22);
\* a v below 2^22 gives 0 and a v from 2^22 to 2^23 - 1 gives 1.
C4_Layer1Rescale ==
    \A j \in 1..Len(intermediate_result) :
        LET v == RowSum(weight_1[j], input, bias_1[j], Len(weight_1[j]))
        IN  /\ linear_combination_1[j] = v
            /\ intermediate_result[j] = v \div (2 ^ 22)
            /\ (v < 2 ^ 22) => intermediate_result[j] = 0
            /\ (v >= 2 ^ 22 /\ v < 2 ^ 23) => intermediate_result[j] = 1

C4_Witness ==
    /\ Len(intermediate_result) >= 2
    /\ linear_combination_1[1] >= 2 ^ 22
    /\ linear_combination_1[1] < 2 ^ 23
    /\ intermediate_result[1] = 1
    /\ linear_combination_1[2] < 2 ^ 22
    /\ intermediate_result[2] = 0

C7_Layer2NotRescaled ==
    /\ \A j \in 1..Len(final_result) :
          final_result[j] =
              RowSum(weight_2[j], relu_result, bias_2[j], Len(weight_2[j]))
    /\ \A j \in 1..Len(intermediate_result) :
          intermediate_result[j] =
              RowSum(weight_1[j], input, bias_1[j], Len(weight_1[j])) \div (2 ^ 22)

C7_Witness ==
    /\ Len(final_result) = Len(weight_2)
    /\ \E j \in 1..Len(final_result) :
          /\ final_result[j] # final_result[j] \div (2 ^ 22)
          /\ final_result[j] =
                RowSum(weight_2[j], relu_result, bias_2[j], Len(weight_2[j]))
    /\ \E j \in 1..Len(intermediate_result) :
          linear_combination_1[j] # intermediate_result[j]

\* A sponge absorbed exactly the given terms and was squeezed once.
AbsorbedThenSqueezedOnce(sponge, terms) ==
    /\ sponge.phase = "squeezing" => sponge.absorbed = terms
    /\ sponge.phase = "absorbing" => sponge.squeezed = 0
    /\ sponge.phase = "squeezing" => sponge.squeezed = 1
    /\ \A k \in 1..Len(sponge.absorbed) :
          k <= Len(terms) /\ sponge.absorbed[k] = terms[k]

\* C8: the Stage A sponge absorbs W1 row-major, W2 row-major, b1, b2 and the
\* threshold, in this order, and is squeezed for exactly one element, in
\* generate_constraints and in compute_model_var alike.
C8_StageAOrder ==
    /\ AbsorbedThenSqueezedOnce(sponge_model, StageAOrder)
    /\ AbsorbedThenSqueezedOnce(sponge1, StageAOrder)
    /\ sponge_model.phase = "squeezing" =>
          hash_model_var = <<sponge_model.params, StageAOrder, 1>>
    /\ sponge1.phase = "squeezing" =>
          hash_model = <<sponge1.params, StageAOrder, 1>>

C8_Witness ==
    /\ sponge_model.phase = "squeezing"
    /\ sponge1.phase = "squeezing"
    /\ Len(weight_1) = 3 /\ Len(input) = 2 /\ Len(weight_2) = 2
    /\ weight_2[1][1] # weight_1[1][1]
    /\ bias_1[1] # bias_2[1]
    /\ bias_2[1] # bias_2[2]
    /\ zero_relu # bias_2[2]
    /\ sponge_model.absorbed = StageAOrder

\* C9: the Stage B sponge absorbs the input in order, the class index and the
\* Stage A fingerprint, and is squeezed for exactly one element; that element
\* is enforced equal to the public statement, and no other equality is
\* enforced.
C9_StageBOrderAndAssertion ==
    /\ AbsorbedThenSqueezedOnce(sponge_inference,
                                StageBOrder(computed_output_var, hash_model_var))
    /\ AbsorbedThenSqueezedOnce(sponge2, StageBOrder(expected_output, hash_model))
    /\ sponge_inference.phase = "squeezing" =>
          /\ hash_inference_var =
                <<sponge_inference.params,
                  StageBOrder(computed_output_var, hash_model_var), 1>>
          /\ hash_model_var = <<sponge_model.params, StageAOrder, 1>>
          /\ computed_output_var = max_index
    /\ pc # "gc_ok" => cs.equalities = <<>>
    /\ pc = "gc_ok" =>
          /\ cs.equalities = << <<hash_inference_var, public_statement_var>> >>
          /\ cs.instance = <<public_statement>>
          /\ public_statement_var = public_statement

C9_Witness ==
    /\ pc = "gc_ok"
    /\ Len(input) = 2
    /\ computed_output_var = 1
    /\ Len(cs.equalities) = 1
    /\ sponge_inference.absorbed =
          StageBOrder(computed_output_var, hash_model_var)

\* C10: when the output given to compute_model_var is the class index the
\* circuit computes, compute_model_var absorbs and squeezes the same sequences
\* as generate_constraints, and the digest in the circuit is the value
\* compute_model_var returns.
C10_ReferenceAgreement ==
    (pc = "gc_ok" /\ expected_output = computed_output_var) =>
        /\ sponge1.absorbed = sponge_model.absorbed
        /\ sponge1.squeezed = sponge_model.squeezed
        /\ hash_model = hash_model_var
        /\ sponge2.absorbed = sponge_inference.absorbed
        /\ sponge2.squeezed = sponge_inference.squeezed
        /\ public_statement = hash_inference_var
        /\ cs.equalities[1][1] = cs.equalities[1][2]

C10_Witness ==
    /\ pc = "gc_ok"
    /\ expected_output = computed_output_var
    /\ computed_output_var = 1
    /\ public_statement = hash_inference_var
    /\ Len(sponge2.absorbed) = 4

\* A sponge is not constructed, or absorbing and never squeezed, or squeezed
\* exactly once.
SpongeState(sponge) ==
    /\ sponge.phase \in {"none", "absorbing", "squeezing"}
    /\ sponge.phase = "none" => sponge = NoSponge
    /\ sponge.squeezed = IF sponge.phase = "squeezing" THEN 1 ELSE 0

\* One step of a sponge: once squeezed it never changes; while absorbing it
\* keeps its parameters and what it absorbed, and absorbs more or is squeezed.
SpongeStep(before, after) ==
    /\ before.phase = "squeezing" => after = before
    /\ before.phase = "absorbing" =>
          /\ after.phase \in {"absorbing", "squeezing"}
          /\ after.params = before.params
          /\ Len(after.absorbed) >= Len(before.absorbed)
          /\ SubSeq(after.absorbed, 1, Len(before.absorbed)) = before.absorbed
    /\ (before.phase = "none" /\ after.phase # "none") =>
          after.params = get_poseidon_config

\* A sponge of the circuit starts empty when it is constructed.
FreshlyConstructed(before, after) ==
    (before.phase = "none" /\ after.phase # "none") =>
        after = new(get_poseidon_config)

\* Every term the Stage B sponge absorbed is a plain field element, except the
\* last one of the full sequence, which is the element squeezed from Stage A.
OnlyFingerprintPassed(stage_b, stage_a, fingerprint) ==
    \A k \in 1..Len(stage_b.absorbed) :
        \/ Len(stage_b.absorbed[k]) = 1
        \/ /\ stage_a.phase = "squeezing"
           /\ stage_b.absorbed[k] = fingerprint
           /\ fingerprint = <<stage_a.params, stage_a.absorbed, 1>>
           /\ \A i \in 1..Len(stage_b.absorbed) :
                 Len(stage_b.absorbed[i]) # 1 => i = k

\* C11: every sponge, in the circuit and in compute_model_var, is constructed,
\* absorbs, is squeezed exactly once and never changes afterwards; the Stage B
\* sponge is constructed empty, apart from the Stage A sponge, and the only
\* thing it absorbs that comes from Stage A is the squeezed fingerprint.
C11_SpongeLifecycle ==
    /\ [](/\ SpongeState(sponge1) /\ SpongeState(sponge2)
          /\ SpongeState(sponge_model) /\ SpongeState(sponge_inference)
          /\ sponge_inference.phase # "none" => sponge_model.phase = "squeezing"
          /\ sponge2.phase # "none" => sponge1.phase = "squeezing"
          /\ OnlyFingerprintPassed(sponge_inference, sponge_model, hash_model_var)
          /\ OnlyFingerprintPassed(sponge2, sponge1, hash_model))
    /\ [][/\ SpongeStep(sponge1, sponge1') /\ SpongeStep(sponge2, sponge2')
          /\ SpongeStep(sponge_model, sponge_model')
          /\ SpongeStep(sponge_inference, sponge_inference')
          /\ FreshlyConstructed(sponge_model, sponge_model')
          /\ FreshlyConstructed(sponge_inference, sponge_inference')]_vars

C11_Witness ==
    /\ pc = "done"
    /\ sponge1.phase = "squeezing" /\ sponge2.phase = "squeezing"
    /\ sponge_model.phase = "squeezing" /\ sponge_inference.phase = "squeezing"
    /\ sponge_model.squeezed = 1 /\ sponge_inference.squeezed = 1
    /\ Len(sponge_model.absorbed) > 5
    /\ Len(sponge_inference.absorbed) = Len(input) + 2
    /\ sponge_inference.absorbed[Len(input) + 2] = hash_model_var

\* The shapes agree: every row of W1 is as long as x, every row of W2 as long
\* as W1 has rows, b1 has one element per row of W1 and b2 one per row of W2.
ShapesAgree ==
    /\ \A j \in 1..Len(weight_1) : Len(weight_1[j]) = Len(input)
    /\ \A j \in 1..Len(weight_2) : Len(weight_2[j]) = Len(weight_1)
    /\ Len(bias_1) = Len(weight_1)
    /\ Len(bias_2) = Len(weight_2)

\* generate_constraints has not got past its two assertions.
NotPastAsserts == pc \in {"cmv_stage_a", "cmv_stage_b", "gc_assert", "panic"}

\* C12: whenever the shapes of the parameters disagree, generate_constraints
\* aborts at its assertions: no witness is ever allocated and no layer is ever
\* computed, so it neither fails in the middle of a layer nor runs on.
C12_ShapeErrorsRejectedUpFront ==
    ~ShapesAgree =>
        /\ NotPastAsserts
        /\ cs.witness = <<>>
        /\ intermediate_result = <<>>

\* b1 is shorter than W1 has rows: the witnesses are allocated, rows of layer 1
\* are computed, and the run panics at the row that has no bias.
C12_Witness ==
    /\ Len(bias_1) < Len(weight_1)
    /\ \A j \in 1..Len(weight_1) : Len(weight_1[j]) = Len(input)
    /\ pc = "panic"
    /\ cs.witness # <<>>
    /\ Len(intermediate_result) = Len(bias_1)
    /\ Len(intermediate_result) >= 1

\* The model among the parameters of a run.
ModelOf(run) ==
    <<run.weight_1, run.weight_2, run.bias_1, run.bias_2, run.zero_relu>>

\* C13: two models that differ in an element or in a dimension never have the
\* same Stage A absorb sequence, in compute_model_var and in the circuit
\* alike, and two different triples of model, input and class index never
\* have the same Stage B absorb sequence.
C13_CommitmentBindsModel ==
    first_run.kind = "other" =>
        /\ (sponge1.phase = "squeezing"
                /\ ModelOf(Parameters) # ModelOf(first_run.params)) =>
              sponge1.absorbed # first_run.results.sponge1.absorbed
        /\ (sponge_model.phase = "squeezing"
                /\ first_run.results.sponge_model.phase = "squeezing"
                /\ ModelOf(Parameters) # ModelOf(first_run.params)) =>
              sponge_model.absorbed # first_run.results.sponge_model.absorbed
        /\ (sponge_inference.phase = "squeezing"
                /\ first_run.results.sponge_inference.phase = "squeezing"
                /\ <<ModelOf(Parameters), input, computed_output_var>>
                      # <<ModelOf(first_run.params), first_run.params.input,
                          first_run.results.computed_output_var>>) =>
              sponge_inference.absorbed
                  # first_run.results.sponge_inference.absorbed

\* Two runs on models of different dimensions whose circuits absorbed the same
\* Stage A sequence, and then the same Stage B sequence, and ended with the
\* same public statement.
C13_Witness ==
    /\ first_run.kind = "other"
    /\ pc = "done"
    /\ Len(weight_1) # Len(first_run.params.weight_1)
    /\ ModelOf(Parameters) # ModelOf(first_run.params)
    /\ sponge_model.absorbed = first_run.results.sponge_model.absorbed
    /\ sponge_inference.absorbed = first_run.results.sponge_inference.absorbed
    /\ public_statement = first_run.results.public_statement
    /\ is_valid /\ first_run.results.is_valid

\* C14: after a run whose proof verified, the circuit built with one element of
\* W1 or W2 changed and the same public statement absorbs another Stage A
\* sequence and squeezes another fingerprint and another digest, so the
\* enforced equality is unsatisfied and the proof does not verify against that
\* public statement.
C14_WeightMutationDetected ==
    first_run.kind = "mutated" =>
        /\ first_run.results.is_valid
        /\ public_statement = first_run.results.public_statement
        /\ sponge_model.phase = "squeezing" =>
              /\ sponge_model.absorbed
                    # first_run.results.sponge_model.absorbed
              /\ hash_model_var # first_run.results.hash_model_var
        /\ sponge_inference.phase = "squeezing" =>
              hash_inference_var # public_statement
        /\ cs.equalities # <<>> =>
              /\ cs.equalities = << <<hash_inference_var, public_statement>> >>
              /\ ~is_satisfied
        /\ ~is_valid
        /\ pc \notin {"main_save", "done"}

\* An element of W2 was changed, verify ran against the statement of the first
\* run and returned false.
C14_Witness ==
    /\ first_run.kind = "mutated"
    /\ weight_2 # first_run.params.weight_2
    /\ Len(weight_2) >= 2
    /\ proof # NoProof
    /\ public_inputs = <<first_run.results.public_statement>>
    /\ ~is_valid
    /\ pc = "panic"

Mismatch == hash_inference_var # NoDigest /\ hash_inference_var # public_statement

\* C16: when the digest computed in the circuit differs from the public
\* statement, generate_constraints returns Ok(()) with the mismatch recorded as
\* one unsatisfied equality and nothing else, and the program never panics: the
\* failure is a verification that returns false.
C16_MismatchIsNoCrash ==
    Mismatch =>
        /\ pc # "panic"
        /\ cs.equalities # <<>> =>
              /\ cs.equalities = << <<hash_inference_var, public_statement>> >>
              /\ ~is_satisfied
        /\ ~is_valid

\* The digest differs from the public statement, generate_constraints
\* returned Ok(()), verify ran and returned false, and main panicked.
C16_Witness ==
    /\ Mismatch
    /\ cs.equalities = << <<hash_inference_var, public_statement>> >>
    /\ \A i \in 1..Len(cs.range_checks) : cs.range_checks[i].satisfied
    /\ proof # NoProof
    /\ public_inputs = <<public_statement>>
    /\ ~is_valid
    /\ pc = "panic"

\* C17: when W2 has no rows, generate_constraints aborts with a panic: it stops
\* at its assertions (weight_2[0] on line 41 is out of bounds), allocates no
\* witness, computes no logit and no class index, never returns Ok(()), and
\* the panic does come.
C17_EmptyOutputAborts ==
    /\ [](weight_2 = <<>> =>
            /\ NotPastAsserts
            /\ cs.witness = <<>>
            /\ final_result = <<>>
            /\ sponge_inference = NoSponge)
    /\ (weight_2 = <<>>) ~> (pc = "panic")

C17_Witness ==
    /\ weight_2 = <<>>
    /\ Len(weight_1) >= 1
    /\ \A j \in 1..Len(weight_1) : Len(weight_1[j]) = Len(input)
    /\ Len(bias_1) = Len(weight_1)
    /\ public_statement # NoDigest
    /\ pc = "panic"

\* generate_constraints has returned Ok(()).
ReturnedOk ==
    pc \in {"gc_ok", "main_prove", "main_verify", "main_assert", "main_save", "done"}

\* W1 = W2 = identity, b1 = b2 = 0, x = (2^23, 0), threshold 0, output 0.
Scenario ==
    /\ weight_1 = << <<1, 0>>, <<0, 1>> >>
    /\ weight_2 = << <<1, 0>>, <<0, 1>> >>
    /\ bias_1 = <<0, 0>>
    /\ bias_2 = <<0, 0>>
    /\ input = <<2 ^ 23, 0>>
    /\ zero_relu = 0
    /\ expected_output = 0

\* C18: in the end-to-end scenario layer 1 is (2^23, 0) before and (2, 0)
\* after the rescale, the activation is (2, 0), layer 2 is (2, 0), the class
\* index is 0, the digest squeezed in the circuit is the value
\* compute_model_var returned for output 0, every constraint is satisfied, and
\* the proof verifies.
C18_EndToEnd ==
    Scenario =>
        /\ \A j \in 1..Len(linear_combination_1) :
              /\ linear_combination_1[j] = <<2 ^ 23, 0>>[j]
              /\ intermediate_result[j] = <<2, 0>>[j]
        /\ relu_result \in {<<>>, <<2, 0>>}
        /\ \A j \in 1..Len(final_result) :
              /\ linear_combination_2[j] = <<2, 0>>[j]
              /\ final_result[j] = <<2, 0>>[j]
        /\ max_index = 0
        /\ computed_output_var = 0
        /\ hash_inference_var # NoDigest => hash_inference_var = public_statement
        /\ public_statement # NoDigest =>
              public_statement =
                  squeezed_element(absorb_each(new(get_poseidon_config),
                      StageBOrder(0, <<get_poseidon_config, StageAOrder, 1>>)))
        /\ is_satisfied
        /\ ReturnedOk => /\ Len(cs.range_checks) = 3
                         /\ cs.equalities = << <<public_statement, public_statement>> >>
        /\ pc \in {"main_assert", "main_save", "done"} => is_valid
        /\ pc \notin {"panic", "err"}

C18_Witness ==
    /\ Scenario
    /\ pc = "done"
    /\ linear_combination_1 = <<2 ^ 23, 0>>
    /\ intermediate_result = <<2, 0>>
    /\ relu_result = <<2, 0>>
    /\ final_result = <<2, 0>>
    /\ computed_output_var = 0
    /\ hash_inference_var = public_statement
    /\ is_satisfied
    /\ is_valid

\* The fingerprint a Stage A sponge squeezes after absorbing the given terms.
Fingerprint(terms) ==
    squeezed_element(absorb_each(new(get_poseidon_config), terms))

\* Stage A orders other than the one the code uses: W2 before W1, the biases
\* before the weights, b2 before b1, the threshold first.
PermutedOrders ==
    {matrix_terms(weight_2) \o matrix_terms(weight_1) \o vector_terms(bias_1)
         \o vector_terms(bias_2) \o <<elem(zero_relu)>>,
     vector_terms(bias_1) \o vector_terms(bias_2) \o matrix_terms(weight_1)
         \o matrix_terms(weight_2) \o <<elem(zero_relu)>>,
     matrix_terms(weight_1) \o matrix_terms(weight_2) \o vector_terms(bias_2)
         \o vector_terms(bias_1) \o <<elem(zero_relu)>>,
     <<elem(zero_relu)>> \o matrix_terms(weight_1) \o matrix_terms(weight_2)
         \o vector_terms(bias_1) \o vector_terms(bias_2)}

Allocated(name) ==
    Cardinality({k \in 1..Len(cs.witness) : cs.witness[k] = name})

RECURSIVE Elements(_)
Elements(matrix) ==
    IF matrix = <<>> THEN 0 ELSE Len(Head(matrix)) + Elements(Tail(matrix))

\* C20: the constraint system has one public input, the public statement, and
\* none before line 164; every weight, bias, input element, the threshold,
\* every layer output and the class index is allocated as a witness; verify is
\* given, and the public-input file holds, the one-element list of that same
\* public statement, which is still the element compute_model_var squeezed.
C20_SinglePublicInput ==
    /\ public_statement_var \in {NoDigest, public_statement}
    /\ cs.instance = IF public_statement_var = NoDigest
                        THEN <<>> ELSE <<public_statement>>
    /\ ReturnedOk => cs.instance = <<public_statement>>
    /\ \A k \in 1..Len(cs.witness) :
          cs.witness[k] \in {"input", "bias_1", "bias_2", "weight_1", "weight_2",
                             "zero_relu", "intermediate_var", "final_var",
                             "computed_output_var"}
    /\ ReturnedOk =>
          /\ Allocated("input") = Len(input)
          /\ Allocated("bias_1") = Len(bias_1)
          /\ Allocated("bias_2") = Len(bias_2)
          /\ Allocated("weight_1") = Elements(weight_1)
          /\ Allocated("weight_2") = Elements(weight_2)
          /\ Allocated("zero_relu") = 1
          /\ Allocated("intermediate_var") = Len(weight_1)
          /\ Allocated("final_var") = Len(weight_2)
          /\ Allocated("computed_output_var") = 1
    /\ vk # NoKey => vk.public_inputs = 1
    /\ public_inputs \in {<<>>, <<public_statement>>}
    /\ pc \in {"main_assert", "main_save", "done"} =>
          public_inputs = <<public_statement>>
    /\ saved # <<>> =>
          /\ Len(saved) = 3
          /\ saved[3].file_path = "proof/public_inputs.json"
          /\ saved[3].item = <<public_statement>>
    /\ pc = "done" => saved # <<>>
    /\ public_statement # NoDigest =>
          public_statement = <<sponge2.params, sponge2.absorbed, 1>>
    /\ pc \notin {"cmv_stage_a", "cmv_stage_b"} => public_statement # NoDigest

C20_Witness ==
    /\ pc = "done"
    /\ cs.instance = <<public_statement>>
    /\ Allocated("weight_1") = Len(input) * Len(bias_1)
    /\ Allocated("computed_output_var") = 1
    /\ public_inputs = <<public_statement>>
    /\ saved[3].item = <<public_statement>>
    /\ public_statement = <<sponge2.params, sponge2.absorbed, 1>>

\* The sponges constructed so far, by compute_model_var and by the circuit.
Sponges == <<sponge1, sponge2, sponge_model, sponge_inference>>

Constructed == {Sponges[k] : k \in {j \in 1..4 : Sponges[j].phase # "none"}}

\* C21: every constructed sponge, of compute_model_var (Stage A and B) and of
\* generate_constraints (Stage A and B), has the parameters get_poseidon_config
\* returns: 8 full rounds, 57 partial rounds, alpha 5, rate 2, capacity 1, the
\* 3x3 matrix 1..9 and 65 rows of round constants; so no two sponges differ in
\* their parameters.
C21_SharedSpongeConfiguration ==
    /\ \A s \in Constructed :
          /\ s.params = get_poseidon_config
          /\ s.params.full_rounds = 8
          /\ s.params.partial_rounds = 57
          /\ s.params.alpha = 5
          /\ s.params.rate = 2
          /\ s.params.capacity = 1
          /\ s.params.mds = << <<1, 2, 3>>, <<4, 5, 6>>, <<7, 8, 9>> >>
          /\ Len(s.params.ark) = 65
          /\ \A i \in 1..65 : Len(s.params.ark[i]) = 3
    /\ \A s, t \in Constructed : s.params = t.params
    /\ sponge_params \in {NoConfig, get_poseidon_config}
    /\ poseidon_config \in {NoConfig, get_poseidon_config}

C21_Witness ==
    /\ pc = "done"
    /\ \A k \in 1..4 : Sponges[k] \in Constructed
    /\ sponge2.params = sponge_inference.params
    /\ sponge1.params = sponge_model.params
    /\ sponge_params = poseidon_config

\* The first mode, in the order of main's tests, whose flag is set.
FirstMode ==
    CASE cli.setup -> <<"setup">>
      [] cli.process -> <<"process">>
      [] cli.prove -> <<"prove">>
      [] cli.verify -> <<"verify">>
      [] OTHER -> <<>>

\* The calls of the NFT interface this invocation of main made.
CallsOfInvocation == {k \in 1..Len(log) : log[k].call = calls}

\* C22: an invocation of the tcp_proof_system main runs at most one mode; once
\* it is over, the mode it ran is the first of setup, process, prove, verify
\* whose flag is set; with no flag set it ran none and ended normally; and
\* when NFT::verify returned false it ended in the assertion failure
\* "Proof not valid.".
C22_ModeDispatch ==
    /\ Len(ran) <= 1
    /\ Cardinality(CallsOfInvocation) <= 1
    /\ \A k \in CallsOfInvocation :
          ran = <<IF log[k].op = "process_input" THEN "process" ELSE log[k].op>>
    /\ tcp_pc = "dispatch" => ran = <<>>
    /\ (tcp_pc = "exit" /\ exit_status # "usage") =>
          /\ ran = FirstMode
          /\ FirstMode = <<>> => exit_status = "ok"
          /\ \A k \in CallsOfInvocation :
                /\ log[k].valid = "false" =>
                      exit_status = "panic: Proof not valid."
                /\ log[k].valid = "true" => exit_status = "ok"
    /\ exit_status = "panic: Proof not valid." =>
          \E k \in CallsOfInvocation : log[k].valid = "false"

C22_Witness ==
    /\ tcp_pc = "exit"
    /\ ~cli.setup /\ ~cli.process /\ cli.prove /\ cli.verify
    /\ ran = <<"prove">>
    /\ exit_status = "ok"
    /\ \E k \in CallsOfInvocation : log[k].op = "prove" /\ log[k].kind = "Ok"

\* The arg-max loop has processed the elements 1..Processed of the final
\* logits f[0..m-1], none when Processed = 0.
InArgmaxLoop == pc = "gc_argmax"

Processed == iter - 2

\* What the loop maintains whatever the logits are.
ArgmaxCounters ==
    /\ index = Processed
    /\ max_index \in 0..Processed
    /\ max_value = final_result[max_index + 1]
    /\ Processed = 0 => (max_index = 0 /\ max_value = final_result[1])
    /\ Len(final_result) = 1 => Processed = 0

\* max_value is at least every logit seen so far.
ArgmaxMaximum == \A i \in 0..Processed : max_value >= final_result[i + 1]

C24_OutputComesFromFile ==
    /\ sponge2.phase = "squeezing" =>
          /\ sponge2.absorbed =
                 reference_inference_terms(input, expected_output, hash_model)
          /\ public_statement = <<sponge2.params, sponge2.absorbed, 1>>
    /\ pc \in {"gc_assert", "gc_alloc"} => public_statement # NoDigest
    /\ (ReturnedOk /\ is_satisfied) =>
          /\ expected_output = max_index
          /\ expected_output = computed_output_var
    /\ is_valid => expected_output = max_index
    /\ pc \in {"main_save", "done"} => expected_output = max_index

C24_Witness ==
    /\ pc = "done"
    /\ is_satisfied
    /\ is_valid
    /\ Len(final_result) = 2
    /\ max_index = 1
    /\ expected_output = 1
    /\ sponge2.absorbed[Len(input) + 1] = <<1>>

\* The latest call of the NFT interface, in a step that makes one.
Called == Len(log') = Len(log) + 1

\* Whether an earlier call than the k-th was a setup that got past at least
\* the given number of its saves (all five when it returned Ok).
SavesDone(entry) ==
    IF entry.kind = "Ok" THEN 5
    ELSE (CHOOSE n \in 1..5 :
              setup_saves(generated(1))[n].error = entry.error) - 1

EarlierSetup(k, saves) ==
    \E j \in 1..(k - 1) : log[j].op = "setup" /\ SavesDone(log[j]) >= saves

\* The resolved paths of the files setup writes.
SetupPaths ==
    {resolve(KEYS_PATH \o setup_saves(generated(1))[n].name) : n \in 1..5}

KeyPath(name) == resolve(KEYS_PATH \o <<name>>)

Only(fs, paths) == [file \in DOMAIN fs \cap paths |-> fs[file]]

Without(fs, path) == [file \in DOMAIN fs \ {path} |-> fs[file]]

\* C25 as stated: process_input, prove and verify get past key loading only
\* after a setup that completed.
C25_OnlyAfterCompletedSetup ==
    \A k \in 1..Len(log) :
        log[k].loaded =>
            \E j \in 1..(k - 1) : log[j].op = "setup" /\ log[j].kind = "Ok"

\* Key loading reads nothing but files setup writes, at the paths setup
\* writes them to, and gets what a completed setup saved.
LoadersReadSetupFiles ==
    /\ load_pk(disk) = load_pk(Only(disk, SetupPaths))
    /\ load_vk(disk) = load_vk(Only(disk, SetupPaths))
    /\ \A name \in {"crh_pp_seed.bin", "main_pk.bin", "help_pk.bin"} :
          load_pk(Without(disk, KeyPath(name))).kind = "Err"
    /\ \A name \in {"crh_pp_seed.bin", "help_vk.bin"} :
          load_vk(Without(disk, KeyPath(name))).kind = "Err"
    /\ (log # <<>> /\ log[Len(log)].op = "setup" /\ log[Len(log)].kind = "Ok") =>
          /\ load_pk(disk).kind = "Ok"
          /\ load_vk(disk).kind = "Ok"
          /\ \E key \in KeyMaterial :
                /\ load_pk(disk).value.crh_pp = generated(key).crh_pp
                /\ load_pk(disk).value.main_pk = generated(key).main_pk
                /\ load_pk(disk).value.help_pk = generated(key).help_pk
                /\ load_vk(disk).value.help_vk = generated(key).help_vk

\* A call gets past key loading only after setup calls that saved the files
\* it loads: the first three for prove, the first four for the others.
LoadedAfterSetup ==
    \A k \in 1..Len(log) :
        log[k].loaded =>
            EarlierSetup(k, IF log[k].op = "prove" THEN 3 ELSE 4)

\* A call that does not get past key loading returns the error of its loader
\* and leaves the disk as it was; with a key file absent that is what happens.
NoKeysNoFiles ==
    (Called /\ log'[Len(log')].op # "setup") =>
        LET entry == log'[Len(log')]
            loader == IF entry.op = "prove" THEN load_pk(disk) ELSE load_vk(disk)
            error == IF entry.op = "prove" THEN "Failed to load pk"
                     ELSE "Failed to load vk"
        IN  /\ entry.loaded = (loader.kind = "Ok")
            /\ ~entry.loaded =>
                  /\ entry.kind = "Err"
                  /\ entry.error = error
                  /\ disk' = disk
            /\ entry.error = error => ~entry.loaded

\* C25: process_input, prove and verify get past key loading only after
\* setup calls that saved every key file they load (a setup that failed at a
\* later save counts); otherwise they return "Failed to load pk" or "Failed
\* to load vk" and write no file; the loaders read only files setup writes.
C25_KeyWorkflow ==
    /\ [](LoadedAfterSetup /\ LoadersReadSetupFiles)
    /\ [][NoKeysNoFiles]_vars

\* A prove got past key loading after a setup that failed at help_vk.bin, and
\* a later verify did not.
C25_Witness ==
    /\ Len(log) = 3
    /\ log[1].op = "setup" /\ log[1].error = "Failed to save help_vk"
    /\ log[2].op = "prove" /\ log[2].loaded /\ log[2].kind = "Ok"
    /\ log[3].op = "verify" /\ ~log[3].loaded
    /\ log[3].error = "Failed to load vk"

\* The prove calls so far.
Proves == {k \in 1..Len(log) : log[k].op = "prove"}

\* C26: in prove, an empty prior_proof_path gives the prover no prior proof; a
\* prior-proof file that cannot be read makes prove return Err without calling
\* the prover; with a readable file the prover always gets a prior proof, and
\* a readable file that does not deserialize is an error, never "no prior
\* proof".
C26_PriorProofHandling ==
    \A k \in Proves :
        /\ log[k].prior_proof_path = "" => log[k].prior_proof \in {"-", "None"}
        /\ log[k].prior_file = "unreadable" =>
              /\ log[k].prior_proof = "-"
              /\ log[k].kind = "Err"
              /\ log[k].error \in {"Failed to load pk",
                                   "Failed to hex decode witness tx",
                                   "Failed to read prior proof"}
        /\ log[k].prior_file = "proof" => log[k].prior_proof \in {"-", "Some"}
        /\ log[k].prior_file = "other" =>
              /\ log[k].prior_proof = "-"
              /\ log[k].kind = "Err"
        /\ log[k].prior_proof = "None" => log[k].prior_proof_path = ""

\* After process mode wrote a_processed_input.bin, a prove whose witness names
\* that file as its prior proof called the prover without a prior proof and
\* saved the proof.
C26_Witness ==
    /\ Len(log) = 3
    /\ log[2].op = "process_input" /\ log[2].kind = "Ok"
    /\ log[3].op = "prove"
    /\ log[3].prior_proof_path = "a_processed_input"
    /\ log[3].prior_file = "other"
    /\ log[3].prior_proof = "None"
    /\ log[3].kind = "Ok"
    /\ <<"data", "proofs", "a.bin">> \in DOMAIN disk

\* The file of the path, once it exists.
TheFile == disk[resolve(FilePath)]

\* The file ends before the bytes its first eight bytes declare.
ShorterThanDeclared ==
    \/ Len(TheFile) < 8
    \/ from_le_bytes(SubSeq(TheFile, 1, 8), Len(TheFile)) > Len(TheFile) - 8

\* C27: after a successful save_to_file(d, p) the file holds the length of d
\* in 8 little-endian bytes and then d, and read_from_file(p) returns exactly
\* d; of a file that is shorter than the length it declares read_from_file
\* returns an error.
C27_FileRoundTrip ==
    /\ (file_pc = "saved" /\ save_result.kind = "Ok") =>
          /\ TheFile = to_le_bytes(Len(data)) \o data
          /\ Len(TheFile) = 8 + Len(data)
          /\ read_result # NotYet => read_result = Ok(data)
    /\ (read_result # NotYet /\ resolve(FilePath) \in DOMAIN disk
          /\ ShorterThanDeclared) =>
          read_result.kind = "Err"

\* The eighth byte of the length was changed to 255: the file declares more
\* than isize::MAX bytes and read_from_file panicked.
C27_Witness ==
    /\ file_pc = "damaged"
    /\ save_result.kind = "Ok"
    /\ Len(TheFile) = 8 + Len(data)
    /\ TheFile[8] = 255
    /\ ShorterThanDeclared
    /\ read_result = Panic("capacity overflow")

====
